---- MODULE Spec2Model ----
(***************************************************************************)
(* Model of the structural extractor and graph-assembly engine:            *)
(*   - the block scanner _extract_block_content of the heuristic           *)
(*     extractors (src/backend/domain/analyzer.py),                        *)
(*   - PythonAnalyzer / PythonASTVisitor (src/backend/domain/analyzer.py), *)
(*   - AnalysisService.analyze_project and _prepare_visualization_data     *)
(*     (src/backend/services/analysis_service.py).                         *)
(*                                                                         *)
(* Strings are sequences of tokens. A token is a run of characters the     *)
(* code never splits (an identifier, a path component); the characters the *)
(* code does look at ("/", "\\", ".", "{", "}") are tokens of their own.   *)
(* Python indices are kept 0-based; s[i] of Python is s[i + 1] here.       *)
(***************************************************************************)
EXTENDS Integers, Sequences, FiniteSets, TLC

VARIABLES
    scan,               \* one call of _extract_block_content: its arguments and locals
    read,               \* one call of FileService.read_file: its argument and position
    files,              \* analyze_project: the list get_code_files returned
    disk,               \* path -> content of the file as read_file yields it
    pc,                 \* analyze_project: position in the handler
    idx,                \* index of the next element of the loop the handler is in
    analysis_results,   \* analyze_project: ordered dict file_path -> analysis
    nodes,              \* _prepare_visualization_data: nodes
    links,              \* _prepare_visualization_data: links (pass 1)
    node_map,           \* _prepare_visualization_data: node_map
    node_id,            \* _prepare_visualization_data: node_id
    actual_links,       \* _prepare_visualization_data: actual_links (pass 2 onwards)
    module_map,         \* _prepare_visualization_data: module_map (ordered dict)
    visualization_data, \* value returned by _prepare_visualization_data
    structured_analysis,\* analyze_project: ordered dict normalized path -> FileAnalysis
    outcome,            \* how analyze_project ended: a result or a raised AnalysisError
    run,                \* number of the analyze_project call in progress
    previous_data,      \* visualization_data of the preceding call
    analyzers,          \* AnalysisService.analyzers: dict extension -> analyzer
    registered,         \* the register_analyzer calls made so far, in order
    hash_seed           \* the hash seed of the process: it orders the listing of a set

scanVars == <<scan>>
readVars == <<read>>
projectVars == <<files, disk, pc, idx, analysis_results, nodes, links, node_map,
                 node_id, actual_links, module_map, visualization_data,
                 structured_analysis, outcome, run, previous_data, analyzers,
                 registered, hash_seed>>
vars == <<scan, read, files, disk, pc, idx, analysis_results, nodes, links, node_map,
          node_id, actual_links, module_map, visualization_data,
          structured_analysis, outcome, run, previous_data, analyzers, registered,
          hash_seed>>

(***************************************************************************)
(* Bounds of the model.                                                    *)
(***************************************************************************)
MaxScanLen == 5
MaxFiles == 2
MaxBody == 2
MaxRegister == 2

(***************************************************************************)
(* Python values.                                                          *)
(***************************************************************************)
NoneVal == [none |-> TRUE]
Some(v) == [some |-> v]
IsNone(o) == o = NoneVal

Min(S) == CHOOSE m \in S : \A n \in S : m <= n
Range(s) == {s[k] : k \in DOMAIN s}

\* s[a:b] for 0 <= a, 0 <= b
Slice(s, a, b) == SubSeq(s, a + 1, IF b < Len(s) THEN b ELSE Len(s))

\* sub in s, for non-empty sub
Contains(s, sub) ==
    \E k \in 0..(Len(s) - Len(sub)) : Slice(s, k, k + Len(sub)) = sub

\* s.split(sep) for a one-token separator
RECURSIVE SplitFrom(_, _, _)
SplitFrom(s, sep, cur) ==
    IF s = <<>> THEN <<cur>>
    ELSE IF Head(s) = sep THEN <<cur>> \o SplitFrom(Tail(s), sep, <<>>)
    ELSE SplitFrom(Tail(s), sep, Append(cur, Head(s)))

Split(s, sep) == SplitFrom(s, sep, <<>>)

\* sep.join(parts)
RECURSIVE Join(_, _)
Join(parts, sep) ==
    IF parts = <<>> THEN <<>>
    ELSE IF Len(parts) = 1 THEN parts[1]
    ELSE parts[1] \o <<sep>> \o Join(Tail(parts), sep)

\* s.lstrip(ch)
RECURSIVE LStrip(_, _)
LStrip(s, ch) ==
    IF s # <<>> /\ Head(s) = ch THEN LStrip(Tail(s), ch) ELSE s

\* s.replace(a, b) for one-token a and b
Replace(s, a, b) == [k \in DOMAIN s |-> IF s[k] = a THEN b ELSE s[k]]

\* s.lower(): the tokens of the model that are not lower case already
LowerToken(t) == CASE t = "PY" -> "py" [] t = "Py" -> "py" [] OTHER -> t
Lower(s) == [k \in DOMAIN s |-> LowerToken(s[k])]

\* os.path.basename (posixpath): what follows the last "/"
Basename(p) == LET parts == Split(p, "/") IN parts[Len(parts)]

(***************************************************************************)
(* Block scanner: _extract_block_content(content, start_pos).              *)
(* JavaAnalyzer's copy has an entry guard, the three others do not.        *)
(***************************************************************************)
Analyzers == {"java", "go", "cpp", "js"}
ScanAlphabet == {"{", "}", "a"}

\* "a { b { c } d } e"
NestedExample ==
    <<"a", " ", "{", " ", "b", " ", "{", " ", "c", " ", "}", " ", "d", " ", "}", " ", "e">>
\* "a { b"
UnbalancedExample == <<"a", " ", "{", " ", "b">>

RECURSIVE TextsOfLen(_)
TextsOfLen(n) ==
    IF n = 0 THEN {<<>>}
    ELSE {Append(t, c) : t \in TextsOfLen(n - 1), c \in ScanAlphabet}

ScanTexts ==
    UNION {TextsOfLen(n) : n \in 0..MaxScanLen} \cup {NestedExample, UnbalancedExample}

\* no call in progress
ScanIdle == [pc |-> "idle"]
ReadIdle == [pc |-> "idle"]

\* JavaAnalyzer._extract_block_content, line 244
EntryGuardMutLastOffset(analyzer, content, start_pos) ==
    analyzer = "java" /\ (content = <<>> \/ start_pos + 3 >= Len(content))
EntryGuard(analyzer, content, start_pos) ==
    analyzer = "java" /\ (content = <<>> \/ start_pos >= Len(content))

\* the assignments of the '{' branch
OnOpenMutStart(s) ==
    [s EXCEPT !.start_idx = IF s.depth = 0 THEN Some(s.i) ELSE s.start_idx,
              !.depth = s.depth + 1]
OnOpen(s) ==
    [s EXCEPT !.start_idx = IF s.depth = 0 THEN Some(s.i + 1) ELSE s.start_idx,
              !.depth = s.depth + 1]

\* the '}' branch: the new depth, and the return when it is 0 with a start recorded
OnClose(s) ==
    IF s.depth - 1 = 0 /\ ~IsNone(s.start_idx)
    THEN [s EXCEPT !.depth = s.depth - 1, !.pc = "done",
                   !.result = Some(Slice(s.content, s.start_idx.some, s.i))]
    ELSE [s EXCEPT !.depth = s.depth - 1]

\* the call: arguments bound, guard evaluated, locals initialised
BlockEnter ==
    /\ scan.pc = "call"
    /\ scan' = IF EntryGuard(scan.analyzer, scan.content, scan.start_pos)
               THEN [scan EXCEPT !.pc = "done", !.result = NoneVal]
               ELSE [scan EXCEPT !.pc = "loop", !.depth = 0, !.start_idx = NoneVal,
                                 !.i = scan.start_pos]
    /\ UNCHANGED <<readVars, projectVars>>

\* one iteration of: for i in range(start_pos, len(content))
BlockStep ==
    /\ scan.pc = "loop"
    /\ scan.i < Len(scan.content)
    /\ LET c == scan.content[scan.i + 1]
           s == IF c = "{" THEN OnOpen(scan)
                ELSE IF c = "}" THEN OnClose(scan)
                ELSE scan
       IN scan' = IF s.pc = "done" THEN s ELSE [s EXCEPT !.i = scan.i + 1]
    /\ UNCHANGED <<readVars, projectVars>>

\* the range is exhausted: return None
BlockExhausted ==
    /\ scan.pc = "loop"
    /\ scan.i >= Len(scan.content)
    /\ scan' = [scan EXCEPT !.pc = "done", !.result = NoneVal]
    /\ UNCHANGED <<readVars, projectVars>>

ScanCall(analyzer, content, start_pos) ==
    [pc |-> "call", analyzer |-> analyzer, content |-> content, start_pos |-> start_pos,
     i |-> start_pos, depth |-> 0, start_idx |-> NoneVal, result |-> NoneVal]

ProjectIdle ==
    /\ files = <<>>
    /\ disk = <<>>
    /\ pc = "idle"
    /\ idx = 0
    /\ analysis_results = <<>>
    /\ nodes = <<>>
    /\ links = <<>>
    /\ node_map = <<>>
    /\ node_id = 0
    /\ actual_links = <<>>
    /\ module_map = <<>>
    /\ visualization_data = NoneVal
    /\ structured_analysis = <<>>
    /\ outcome = NoneVal
    /\ run = 0
    /\ previous_data = NoneVal
    /\ analyzers = <<>>
    /\ registered = <<>>
    /\ hash_seed = 0

InitScan ==
    /\ \E a \in Analyzers, t \in ScanTexts :
         \E p \in 0..(Len(t) + 1) : scan = ScanCall(a, t, p)
    /\ read = ReadIdle
    /\ ProjectIdle

NextScan == BlockEnter \/ BlockStep \/ BlockExhausted

SpecScan == InitScan /\ [][NextScan]_vars

(***************************************************************************)
(* FileService.read_file (file_service.py). A file is its path and its    *)
(* bytes: the bytes are a short sequence followed by `pad` bytes 'a', so   *)
(* that a size above 1 MB can be written down. A text is the sequence of   *)
(* the code points of its characters, followed by `pad` characters 'a'.    *)
(***************************************************************************)
File(path, bytes, pad) == [path |-> path, bytes |-> bytes, pad |-> pad]
Text(chars, pad) == [text |-> chars, pad |-> pad]

\* os.path.getsize
FileSize(file) == Len(file.bytes) + file.pad

IsContinuation(b) == b \in 128..191

\* the 'utf-8' codec, strict: the code points of the bytes, None for the
\* UnicodeDecodeError
RECURSIVE Utf8Decode(_, _)
Utf8Decode(bytes, acc) ==
    IF bytes = <<>> THEN Some(acc)
    ELSE IF bytes[1] < 128
    THEN Utf8Decode(Tail(bytes), Append(acc, bytes[1]))
    ELSE IF /\ bytes[1] \in 194..223
            /\ Len(bytes) >= 2
            /\ IsContinuation(bytes[2])
    THEN Utf8Decode(SubSeq(bytes, 3, Len(bytes)),
                    Append(acc, (bytes[1] - 192) * 64 + (bytes[2] - 128)))
    ELSE IF /\ bytes[1] \in 224..239
            /\ Len(bytes) >= 3
            /\ IsContinuation(bytes[2])
            /\ IsContinuation(bytes[3])
            /\ (bytes[1] = 224 => bytes[2] >= 160)
            /\ (bytes[1] = 237 => bytes[2] <= 159)
    THEN Utf8Decode(SubSeq(bytes, 4, Len(bytes)),
                    Append(acc, (bytes[1] - 224) * 4096 + (bytes[2] - 128) * 64
                                   + (bytes[3] - 128)))
    ELSE IF /\ bytes[1] \in 240..244
            /\ Len(bytes) >= 4
            /\ IsContinuation(bytes[2])
            /\ IsContinuation(bytes[3])
            /\ IsContinuation(bytes[4])
            /\ (bytes[1] = 240 => bytes[2] >= 144)
            /\ (bytes[1] = 244 => bytes[2] <= 143)
    THEN Utf8Decode(SubSeq(bytes, 5, Len(bytes)),
                    Append(acc, (bytes[1] - 240) * 262144 + (bytes[2] - 128) * 4096
                                   + (bytes[3] - 128) * 64 + (bytes[4] - 128)))
    ELSE NoneVal

\* the 'latin-1' codec: byte b is the character U+00b; it has no undecodable input
Latin1Decode(bytes) == [k \in DOMAIN bytes |-> bytes[k]]

\* open(..., 'r') translates "\r\n" and "\r" to "\n" on reading
RECURSIVE UniversalNewlines(_)
UniversalNewlines(chars) ==
    IF chars = <<>> THEN <<>>
    ELSE IF chars[1] = 13
    THEN <<10>> \o UniversalNewlines(IF Len(chars) >= 2 /\ chars[2] = 10
                                     THEN SubSeq(chars, 3, Len(chars))
                                     ELSE Tail(chars))
    ELSE <<chars[1]>> \o UniversalNewlines(Tail(chars))

\* lines 123-124 of _is_probably_text: the ZeroDivisionError of an empty content,
\* or whether more than 70% of content[:1000] are printable ASCII, tab, LF or CR
IsTextByte(b) == b \in 32..126 \/ b \in {9, 10, 13}
TextChars(file) ==
    Cardinality({k \in DOMAIN file.bytes : k <= 1000 /\ IsTextByte(file.bytes[k])})
        + (IF FileSize(file) <= 1000 THEN file.pad
           ELSE IF Len(file.bytes) >= 1000 THEN 0
           ELSE 1000 - Len(file.bytes))
is_probably_textMutAtLeast(file) ==
    IF FileSize(file) = 0 THEN [raised |-> "ZeroDivisionError"]
    ELSE [value |-> 10 * TextChars(file)
                       >= 7 * (IF FileSize(file) < 1000 THEN FileSize(file) ELSE 1000)]
is_probably_text(file) ==
    IF FileSize(file) = 0 THEN [raised |-> "ZeroDivisionError"]
    ELSE [value |-> 10 * TextChars(file)
                       > 7 * (IF FileSize(file) < 1000 THEN FileSize(file) ELSE 1000)]

\* f"{file_size/1024:.1f}": the tenths of a KB, the exact quotient rounded to
\* the nearest tenth, a tie to the even one
KBTenths(file_size) ==
    LET q == (file_size * 10) \div 1024
        r == (file_size * 10) % 1024
    IN IF r > 512 \/ (r = 512 /\ q % 2 = 1) THEN q + 1 ELSE q

\* lines 98, 108: f"[Binary file: {file_path}, size: {file_size/1024:.1f} KB]"
BinaryPlaceholder(file) ==
    [binary |-> file.path, kb_tenths |-> KBTenths(FileSize(file))]

\* lines 109-110: except Exception -> raise FileServiceError
FileServiceError == [raised |-> "FileServiceError"]

\* lines 94-108: what the handler of the failed latin-1 read returns or raises
BinaryFallback(file) ==
    IF FileSize(file) > 1024 * 1024 THEN BinaryPlaceholder(file)
    ELSE IF "raised" \in DOMAIN is_probably_text(file) THEN FileServiceError
    ELSE IF is_probably_text(file).value
    THEN Text(Latin1Decode(file.bytes), file.pad)
    ELSE BinaryPlaceholder(file)

\* the call: file_path bound; `failed` collects the steps whose open, read or
\* getsize raised an OSError
ReadCall(file) == [pc |-> "utf-8", file |-> file, failed |-> {}, result |-> NoneVal]

\* lines 87-89: open with encoding='utf-8' and read
ReadUtf8(io_ok) ==
    /\ read.pc = "utf-8"
    /\ read' = IF ~io_ok
               THEN [read EXCEPT !.pc = "done", !.failed = read.failed \cup {"utf-8"},
                                 !.result = FileServiceError]
               ELSE IF IsNone(Utf8Decode(read.file.bytes, <<>>))
               THEN [read EXCEPT !.pc = "latin-1"]
               ELSE [read EXCEPT !.pc = "done",
                                 !.result = Text(UniversalNewlines(
                                                     Utf8Decode(read.file.bytes, <<>>).some),
                                                 read.file.pad)]
    /\ UNCHANGED <<scanVars, projectVars>>

\* lines 90-94: except UnicodeDecodeError: open with encoding='latin-1' and read
ReadLatin1(io_ok) ==
    /\ read.pc = "latin-1"
    /\ read' = IF ~io_ok
               THEN [read EXCEPT !.pc = "binary", !.failed = read.failed \cup {"latin-1"}]
               ELSE [read EXCEPT !.pc = "done",
                                 !.result = Text(UniversalNewlines(
                                                     Latin1Decode(read.file.bytes)),
                                                 read.file.pad)]
    /\ UNCHANGED <<scanVars, projectVars>>

\* lines 95-108: except Exception: getsize, then the binary read
ReadBinary(io_ok) ==
    /\ read.pc = "binary"
    /\ read' = IF ~io_ok
               THEN [read EXCEPT !.pc = "done", !.failed = read.failed \cup {"binary"},
                                 !.result = FileServiceError]
               ELSE [read EXCEPT !.pc = "done", !.result = BinaryFallback(read.file)]
    /\ UNCHANGED <<scanVars, projectVars>>

\* the bytes of the files read: 'A', NUL, CR, and the bytes of "é" in UTF-8 (C3 A9)
\* and in latin-1 (E9)
MaxBytes == 3
ByteAlphabet == {65, 0, 13, 195, 169, 233}
PadSizes == {0, 7, 1024 * 1024 - 1, 1024 * 1024}

RECURSIVE BytesOfLen(_)
BytesOfLen(n) ==
    IF n = 0 THEN {<<>>}
    ELSE {Append(t, b) : t \in BytesOfLen(n - 1), b \in ByteAlphabet}

ReadFiles ==
    {File(<<"data", ".", "txt">>, bytes, pad) :
        bytes \in UNION {BytesOfLen(n) : n \in 0..MaxBytes}, pad \in PadSizes}

InitRead ==
    /\ scan = ScanIdle
    /\ \E file \in ReadFiles : read = ReadCall(file)
    /\ ProjectIdle

NextRead == \E io_ok \in BOOLEAN : ReadUtf8(io_ok) \/ ReadLatin1(io_ok) \/ ReadBinary(io_ok)

SpecRead == InitRead /\ [][NextRead]_vars

(***************************************************************************)
(* Python dicts keep insertion order: a dict is a sequence of <<key, value>>*)
(* pairs with distinct keys; assigning to a present key keeps its place.   *)
(***************************************************************************)
DictKeys(d) == [k \in DOMAIN d |-> d[k][1]]
DictHas(d, key) == \E k \in DOMAIN d : d[k][1] = key
DictGet(d, key) == d[CHOOSE k \in DOMAIN d : d[k][1] = key][2]
DictSet(d, key, val) ==
    IF DictHas(d, key)
    THEN [k \in DOMAIN d |-> IF d[k][1] = key THEN <<key, val>> ELSE d[k]]
    ELSE Append(d, <<key, val>>)

\* an identifier is a one-token string
Id(name) == <<name>>

(***************************************************************************)
(* Python syntax trees (module ast). Context nodes (Load, Store) carry     *)
(* nothing the visitor reads and are left out.                             *)
(***************************************************************************)
Name(id) == [t |-> "Name", id |-> id]
Attribute(value, attr) == [t |-> "Attribute", value |-> value, attr |-> attr]
Call(func, args) == [t |-> "Call", func |-> func, args |-> args]
Expr(value) == [t |-> "Expr", value |-> value]
Pass == [t |-> "Pass"]
Arg(name) == [t |-> "arg", arg |-> name]
Arguments(args, defaults) == [t |-> "arguments", args |-> args, defaults |-> defaults]
FunctionDef(name, args, body, decorator_list) ==
    [t |-> "FunctionDef", name |-> name, args |-> args, body |-> body,
     decorator_list |-> decorator_list]
AsyncFunctionDef(name, args, body, decorator_list) ==
    [t |-> "AsyncFunctionDef", name |-> name, args |-> args, body |-> body,
     decorator_list |-> decorator_list]
ClassDef(name, bases, body) ==
    [t |-> "ClassDef", name |-> name, bases |-> bases, body |-> body]
Alias(name, asname) == [t |-> "alias", name |-> name, asname |-> asname]
Import(names) == [t |-> "Import", names |-> names]
ImportFrom(module, names) == [t |-> "ImportFrom", module |-> module, names |-> names]
Module(body) == [t |-> "Module", body |-> body]

\* ast.iter_child_nodes: the child nodes, in the order of the node's _fields
IterChildNodes(node) ==
    CASE node.t = "Module" -> node.body
      [] node.t \in {"FunctionDef", "AsyncFunctionDef"} ->
            <<node.args>> \o node.body \o node.decorator_list
      [] node.t = "arguments" -> node.args \o node.defaults
      [] node.t = "ClassDef" -> node.bases \o node.body
      [] node.t = "Expr" -> <<node.value>>
      [] node.t = "Call" -> <<node.func>> \o node.args
      [] node.t = "Attribute" -> <<node.value>>
      [] node.t \in {"Import", "ImportFrom"} -> node.names
      [] OTHER -> <<>>

\* ast.walk: breadth first from the node itself
RECURSIVE WalkQueue(_)
WalkQueue(todo) ==
    IF todo = <<>> THEN <<>>
    ELSE <<Head(todo)>> \o WalkQueue(Tail(todo) \o IterChildNodes(Head(todo)))

Walk(node) == WalkQueue(<<node>>)

(***************************************************************************)
(* PythonASTVisitor. The visitor's state is [imports, functions, classes,  *)
(* calls]. The 'body' entry of a function (the unparsed text of its        *)
(* statements) is read by no operation modelled here and is left out.      *)
(***************************************************************************)
NewVisitor == [imports |-> <<>>, functions |-> <<>>, classes |-> <<>>, calls |-> <<>>]

\* lines 79-86: the callee names of the Call nodes among stmts, in order
RECURSIVE CalleeNames(_)
CalleeNames(stmts) ==
    IF stmts = <<>> THEN <<>>
    ELSE LET stmt == Head(stmts)
             here == IF stmt.t = "Call"
                     THEN IF stmt.func.t = "Name" THEN <<stmt.func.id>>
                          ELSE IF stmt.func.t = "Attribute" THEN <<stmt.func.attr>>
                          ELSE <<>>
                     ELSE <<>>
         IN here \o CalleeNames(Tail(stmts))

\* lines 72-86 of visit_FunctionDef: the entry is (re)created, then filled
FunctionEntry(st, node) ==
    LET found == CalleeNames(Walk(node))
    IN [st EXCEPT
          !.functions = DictSet(st.functions, node.name,
                [args |-> [k \in DOMAIN node.args.args |-> node.args.args[k].arg],
                 calls |-> found]),
          !.calls = st.calls \o found]

\* lines 91-104 of visit_ClassDef
RECURSIVE MethodNames(_)
MethodNames(body) ==
    IF body = <<>> THEN <<>>
    ELSE (IF Head(body).t = "FunctionDef" THEN <<Head(body).name>> ELSE <<>>)
         \o MethodNames(Tail(body))

RECURSIVE BaseNames(_)
BaseNames(bases) ==
    IF bases = <<>> THEN <<>>
    ELSE (IF Head(bases).t = "Name" THEN <<Head(bases).id>> ELSE <<>>)
         \o BaseNames(Tail(bases))

ClassEntry(st, node) ==
    [st EXCEPT !.classes = DictSet(st.classes, node.name,
                  [bases |-> BaseNames(node.bases), methods |-> MethodNames(node.body)])]

\* lines 60-61 and 65-68: one import entry per alias, keyed by the bound name
RECURSIVE ImportEntries(_, _, _)
ImportEntries(imports, node, names) ==
    IF names = <<>> THEN imports
    ELSE LET alias == Head(names)
             key == IF IsNone(alias.asname) THEN alias.name ELSE alias.asname.some
             origin == IF node.t = "ImportFrom" /\ ~IsNone(node.module)
                       THEN node.module.some \o <<".">> \o alias.name
                       ELSE alias.name
         IN ImportEntries(DictSet(imports, key, origin), node, Tail(names))

\* the node types PythonASTVisitor defines a visit_ method for
VisitMethods == {"Import", "ImportFrom", "FunctionDef", "ClassDef"}

\* NodeVisitor.visit and generic_visit
RECURSIVE Visit(_, _), VisitEach(_, _)
Visit(st, node) ==
    LET own == IF node.t \notin VisitMethods THEN st
               ELSE IF node.t \in {"Import", "ImportFrom"}
                    THEN [st EXCEPT !.imports = ImportEntries(st.imports, node, node.names)]
               ELSE IF node.t = "ClassDef" THEN ClassEntry(st, node)
               ELSE FunctionEntry(st, node)
    IN VisitEach(own, IterChildNodes(node))

VisitEach(st, children) ==
    IF children = <<>> THEN st
    ELSE VisitEach(Visit(st, Head(children)), Tail(children))

(***************************************************************************)
(* File contents. The text of a file is modelled by what ast.parse makes   *)
(* of it: a tree, or a SyntaxError.                                        *)
(***************************************************************************)
PySource(tree) == [text |-> "python", tree |-> tree]
Malformed == [text |-> "malformed"]
EmptyText == [text |-> "empty"]
Unreadable == [text |-> "unreadable"]

\* ast.parse(content): the tree, or None for a SyntaxError
Parse(content) ==
    CASE content.text = "python" -> Some(content.tree)
      [] content.text = "empty" -> Some(Module(<<>>))
      [] OTHER -> NoneVal

\* PythonAnalyzer.analyze(file_path, content) for content already loaded
PythonAnalyze(file_path, content) ==
    LET tree == Parse(content) IN
    IF IsNone(tree)
    THEN [error |-> <<"Syntax error: ", "invalid syntax">>]
    ELSE LET visitor == Visit(NewVisitor, tree.some)
         IN [imports |-> visitor.imports, functions |-> visitor.functions,
             classes |-> visitor.classes, calls |-> visitor.calls]

(***************************************************************************)
(* The heuristic extractors (JavaAnalyzer, GoAnalyzer, CppAnalyzer,        *)
(* CAnalyzer, JavaScriptAnalyzer). A text is the sequence of its tokens: a *)
(* token is a word (\w+), a line break, a comment delimiter or one         *)
(* punctuation character, and a regular expression of the code is matched  *)
(* token by token. One blank stands between two tokens; no blank stands    *)
(* inside a string literal, around '.' and '/', before ';' and between a   *)
(* parenthesis and a string literal. The texts of the model hold no        *)
(* package, include, using, type, struct or namespace, no '=>', '<', '>',  *)
(* '[', ']', '&', '~' or '#', and const, let and var only before a         *)
(* require; the loops of the code over patterns that need one of these     *)
(* find nothing and are left out. Only the JavaScript texts hold classes,  *)
(* and no Go function has a receiver.                                      *)
(***************************************************************************)
Punctuation ==
    {"(", ")", "{", "}", ";", ",", "\n", "//", "/*", "*/", "\"", "'", ".", "/", "=", ":", "*"}
IsWord(t) == t \notin Punctuation

\* the words of the model that start with an upper-case letter
Capitalized == {"App", "B", "C", "T"}

\* tokens.find(tok, i): the first index at or after i, -1 when there is none
Find(tokens, tok, i) ==
    LET hits == {k \in i..(Len(tokens) - 1) : tokens[k + 1] = tok}
    IN IF hits = {} THEN -1 ELSE Min(hits)

\* tokens.rfind(tok, 0, end): the last index before end, -1 when there is none
RFind(tokens, tok, end) ==
    LET hits == {k \in 0..(end - 1) : k < Len(tokens) /\ tokens[k + 1] = tok}
    IN IF hits = {} THEN -1 ELSE CHOOSE k \in hits : \A j \in hits : j <= k

\* the white space that is a token: a line break, and the empty string re.sub puts
\* in the place of a comment
IsSpace(t) == t \in {"\n", ""}

\* the text as the patterns see it: \s* and \s+ of a pattern skip a line break as
\* they skip any white space
Unlines(tokens) == SelectSeq(tokens, LAMBDA t : ~IsSpace(t))

\* the index in content of the token that has index p in Unlines(content)
OrigPos(content, p) ==
    CHOOSE k \in 0..(Len(content) - 1) :
        /\ ~IsSpace(content[k + 1])
        /\ Cardinality({j \in 0..(k - 1) : ~IsSpace(content[j + 1])}) = p

\* the number of white-space characters before the token at index k: one blank
\* between two tokens, and the line breaks
SpaceBefore(content, k) ==
    LET spaces == {j \in 0..(k - 1) : \A i \in j..(k - 1) : IsSpace(content[i + 1])}
        first == IF spaces = {} THEN k ELSE Min(spaces)
    IN (k - first) + (IF first > 0 THEN 1 ELSE 0)
          + Cardinality({j \in first..(k - 1) : content[j + 1] = "\n"})

\* the indices in Unlines(content) of the tokens with two white-space characters
\* or more before them
Wide(content) ==
    {p \in 0..(Len(Unlines(content)) - 1) : SpaceBefore(content, OrigPos(content, p)) >= 2}

\* _remove_comments, lines 627 and 1064: re.sub(r'/\*[\s\S]*?\*/', '', content)
RECURSIVE RemoveBlockComments(_)
RemoveBlockComments(tokens) ==
    IF tokens = <<>> THEN <<>>
    ELSE IF Head(tokens) = "/*" /\ Find(tokens, "*/", 1) # -1
    THEN <<"">> \o RemoveBlockComments(Slice(tokens, Find(tokens, "*/", 1) + 1, Len(tokens)))
    ELSE <<Head(tokens)>> \o RemoveBlockComments(Tail(tokens))

\* _remove_comments, lines 630 and 1067: re.sub(r'//.*$', '', content, re.MULTILINE)
RECURSIVE RemoveLineComments(_)
RemoveLineComments(tokens) ==
    IF tokens = <<>> THEN <<>>
    ELSE IF Head(tokens) = "//"
    THEN IF Find(tokens, "\n", 0) = -1 THEN <<"">>
         ELSE <<"">> \o RemoveLineComments(Slice(tokens, Find(tokens, "\n", 0), Len(tokens)))
    ELSE <<Head(tokens)>> \o RemoveLineComments(Tail(tokens))

\* CppAnalyzer._remove_comments (CAnalyzer inherits it) and
\* JavaScriptAnalyzer._remove_comments
remove_comments(content) == RemoveLineComments(RemoveBlockComments(content))

\* _extract_block_content run to its return: BlockEnter, then BlockStep until the
\* return inside the loop or the return None after it
RECURSIVE ScanLoop(_)
ScanLoop(s) ==
    IF s.i >= Len(s.content) THEN NoneVal
    ELSE LET c == s.content[s.i + 1]
             t == IF c = "{" THEN OnOpen(s)
                  ELSE IF c = "}" THEN OnClose(s)
                  ELSE s
         IN IF t.pc = "done" THEN t.result ELSE ScanLoop([t EXCEPT !.i = s.i + 1])

extract_block_content(analyzer, content, start_pos) ==
    IF EntryGuard(analyzer, content, start_pos) THEN NoneVal
    ELSE ScanLoop([ScanCall(analyzer, content, start_pos) EXCEPT !.pc = "loop"])

\* the end of the run of words and `extra` tokens that starts at i
RECURSIVE RunEnd(_, _, _)
RunEnd(tokens, i, extra) ==
    IF i < Len(tokens) /\ (IsWord(tokens[i + 1]) \/ tokens[i + 1] \in extra)
    THEN RunEnd(tokens, i + 1, extra)
    ELSE i

\* (\w+)\s*\(([^)]*)\) with the name at index n: the index of the ")", -1 when
\* the pattern does not match there
CloseOf(tokens, n) ==
    IF n >= 0 /\ n + 1 < Len(tokens) /\ IsWord(tokens[n + 1]) /\ tokens[n + 2] = "("
    THEN Find(tokens, ")", n + 2)
    ELSE -1

Match(start, end, n, close, tokens) ==
    Some([start |-> start, end |-> end, name |-> tokens[n + 1],
          params |-> Slice(tokens, n + 2, close)])

\* a declaration "type ... name ( params )": the name is the last of a run of
\* tokens of the type class, as in (?:[\w<>[\],\s]+)\s+(\w+)\s*\(([^)]*)\) of
\* JavaAnalyzer; n is the index of the name. Where white space is of the type
\* class (`spaced`), two white-space characters before the name are a type
TypedNameAt(tokens, spaced, i, extra) ==
    LET n == RunEnd(tokens, i, extra) - 1
    IN IF n > i \/ (n = i /\ i \in spaced) THEN n ELSE -1

\* the match at index i of the function pattern of JavaAnalyzer (line 189) or
\* of CAnalyzer (line 735, which ends with ";" or "{"), None when there is none;
\* `wide` are the tokens after two white-space characters or more
TypedMatchAt(pattern, tokens, wide, i) ==
    CASE pattern = "java.function" ->
            LET n == TypedNameAt(tokens, wide, i, {","})
                close == CloseOf(tokens, n)
            IN IF close # -1 THEN Match(i, close + 1, n, close, tokens) ELSE NoneVal
      [] pattern = "c.function" ->
            LET n == TypedNameAt(tokens, wide, i, {"*"})
                close == CloseOf(tokens, n)
            IN IF close # -1 /\ close + 1 < Len(tokens)
                  /\ tokens[close + 2] \in {";", "{"}
               THEN Match(i, close + 2, n, close, tokens)
               ELSE NoneVal

\* re.finditer of these two patterns
RECURSIVE FindTyped(_, _, _, _)
TypedFrom(pattern, tokens, wide, i, m) ==
    IF IsNone(m) THEN FindTyped(pattern, tokens, wide, i + 1)
    ELSE <<m.some>> \o FindTyped(pattern, tokens, wide, m.some.end)
FindTyped(pattern, tokens, wide, i) ==
    IF i >= Len(tokens) THEN <<>>
    ELSE TypedFrom(pattern, tokens, wide, i, TypedMatchAt(pattern, tokens, wide, i))

\* the match of a pattern of the code that starts at index i, None when there is
\* none
MatchAt(pattern, tokens, i) ==
    CASE pattern = "go.func" ->
            \* line 413
            LET close == CloseOf(tokens, i + 1)
            IN IF tokens[i + 1] = "func" /\ close # -1
               THEN Match(i, close + 1, i + 1, close, tokens)
               ELSE NoneVal
      [] pattern = "cpp.function" ->
            \* line 572: ends with the "{", after an optional const or noexcept
            LET n == TypedNameAt(tokens, {}, i, {})
                close == CloseOf(tokens, n)
                brace == IF close # -1 /\ close + 1 < Len(tokens)
                            /\ tokens[close + 2] \in {"const", "noexcept"}
                         THEN close + 2 ELSE close + 1
            IN IF close # -1 /\ brace < Len(tokens) /\ tokens[brace + 1] = "{"
               THEN Match(i, brace + 1, n, close, tokens)
               ELSE NoneVal
      [] pattern = "js.function" ->
            \* line 896; line 878 (react_component_pattern) for "function Name (...)"
            LET close == CloseOf(tokens, i + 1)
            IN IF tokens[i + 1] = "function" /\ close # -1
               THEN Match(i, close + 1, i + 1, close, tokens)
               ELSE NoneVal
      [] pattern = "js.shorthand" ->
            \* line 1019; lines 860 and 868 inside a class body
            LET close == CloseOf(tokens, i)
            IN IF close # -1 /\ close + 1 < Len(tokens) /\ tokens[close + 2] = "{"
               THEN Match(i, close + 2, i, close, tokens)
               ELSE NoneVal
      [] pattern = "js.object_method" ->
            \* line 986: name : function ( params )
            LET close == Find(tokens, ")", i + 4)
            IN IF /\ i + 3 < Len(tokens) /\ IsWord(tokens[i + 1]) /\ tokens[i + 2] = ":"
                  /\ tokens[i + 3] = "function" /\ tokens[i + 4] = "(" /\ close # -1
               THEN Some([start |-> i, end |-> close + 1, name |-> tokens[i + 1],
                          params |-> Slice(tokens, i + 4, close)])
               ELSE NoneVal
      [] pattern = "js.class" ->
            \* line 846: class Name [extends Parent] {
            LET extends == i + 4 < Len(tokens) /\ tokens[i + 3] = "extends"
                              /\ IsWord(tokens[i + 4])
                brace == IF extends THEN i + 4 ELSE i + 2
            IN IF /\ brace < Len(tokens)
                  /\ tokens[i + 1] = "class" /\ IsWord(tokens[i + 2])
                  /\ tokens[brace + 1] = "{"
               THEN Some([start |-> i, end |-> brace + 1, name |-> tokens[i + 2],
                          parent_class |-> IF extends THEN Some(tokens[i + 4]) ELSE NoneVal])
               ELSE NoneVal
      [] pattern = "class" ->
            \* class\s+\w+ of _is_within_class
            IF i + 1 < Len(tokens) /\ tokens[i + 1] = "class" /\ IsWord(tokens[i + 2])
            THEN Some([start |-> i, end |-> i + 2])
            ELSE NoneVal
      [] pattern = "class|struct" ->
            \* (?:class|struct)\s+\w+ of CppAnalyzer._is_within_class
            IF i + 1 < Len(tokens) /\ tokens[i + 1] \in {"class", "struct"}
               /\ IsWord(tokens[i + 2])
            THEN Some([start |-> i, end |-> i + 2])
            ELSE NoneVal

\* re.finditer(pattern, tokens): the matches from index i on, left to right, none
\* overlapping another
RECURSIVE FindIter(_, _, _)
\* the matches from index i on, m the match at i or None
MatchesFrom(pattern, tokens, i, m) ==
    IF IsNone(m) THEN FindIter(pattern, tokens, i + 1)
    ELSE <<m.some>> \o FindIter(pattern, tokens, m.some.end)
FindIter(pattern, tokens, i) ==
    IF i >= Len(tokens) THEN <<>>
    ELSE MatchesFrom(pattern, tokens, i, MatchAt(pattern, tokens, i))

\* the index of the "}" that takes the depth counted from index i back to 0, -1
\* when there is none
RECURSIVE ClassEnd(_, _, _)
ClassEnd(tokens, i, depth) ==
    IF i >= Len(tokens) THEN -1
    ELSE IF tokens[i + 1] = "{" THEN ClassEnd(tokens, i + 1, depth + 1)
    ELSE IF tokens[i + 1] = "}"
         THEN IF depth - 1 = 0 THEN i ELSE ClassEnd(tokens, i + 1, depth - 1)
    ELSE ClassEnd(tokens, i + 1, depth)

\* lines 276-287: the class that starts at class_start ends after pos
EndsAfter(class_start, pos, class_end) ==
    class_start <= pos /\ class_end # -1 /\ pos < class_end

\* the end of the class whose braces are counted from index brace_from on
ClassEndFrom(tokens, brace_from) ==
    IF brace_from = -1 THEN -1 ELSE ClassEnd(tokens, brace_from, 0)

\* the loop over class_matches: JavaAnalyzer counts braces from the class
\* keyword on, the two others from the first "{" after it
WithinOneOf(analyzer, tokens, pos, class_matches) ==
    \E k \in DOMAIN class_matches :
        EndsAfter(class_matches[k].start, pos,
                  ClassEndFrom(tokens, IF analyzer = "JavaAnalyzer"
                                       THEN class_matches[k].start
                                       ELSE Find(tokens, "{", class_matches[k].start)))

\* _is_within_class
is_within_class(analyzer, tokens, pos) ==
    /\ ~(analyzer = "JavaAnalyzer" /\ (tokens = <<>> \/ pos >= Len(tokens)))
    /\ WithinOneOf(analyzer, tokens, pos,
                   FindIter(IF analyzer = "CppAnalyzer" THEN "class|struct" ELSE "class",
                            tokens, 0))

\* GoAnalyzer._is_method_declaration: the text of the line before pos holds a
\* "(" before a ")"
is_method_declaration(content, pos) ==
    LET line_start == IF RFind(content, "\n", pos) = -1 THEN 0
                      ELSE RFind(content, "\n", pos)
        func_decl == Slice(content, line_start, pos)
    IN /\ "(" \in Range(func_decl)
       /\ ")" \in Range(func_decl)
       /\ Find(func_decl, "(", 0) < Find(func_decl, ")", 0)

\* args_str.split(','): the parameters that are not empty
ArgPieces(params) ==
    SelectSeq(Split(params, ","), LAMBDA piece : piece # <<>>)

\* the last word of each parameter (Java, C++, C), the whole parameter
\* (JavaScript), the name before the type of the one parameter (Go)
LastWords(params) ==
    [k \in DOMAIN ArgPieces(params) |->
        <<ArgPieces(params)[k][Len(ArgPieces(params)[k])]>>]
GoArgs(params) ==
    IF Len(params) >= 2 /\ "," \notin Range(params) THEN <<<<params[1]>>>> ELSE <<>>

\* call_pattern (\w+)\s*\( over a body: the words followed by "("
CallCandidates(body) ==
    {body[k] : k \in {k \in 1..(Len(body) - 1) : IsWord(body[k]) /\ body[k + 1] = "("}}

\* the names the call scan of an extractor skips: lines 768 (C) and 977, 1010,
\* 1044 (JavaScript); the scans of lines 218-221 (Java), 435-437 (Go) and
\* 606-608 (C++) skip none
SkippedCalls(analyzer) ==
    CASE analyzer = "CAnalyzer" -> {"if", "for", "while", "switch", "sizeof"}
      [] analyzer = "JavaScriptAnalyzer" -> {"if", "for", "while", "switch", "console"}
      [] OTHER -> {}

\* the set `calls` of a function whose body is func_content (None, or a text)
CallsOf(analyzer, func_content) ==
    IF IsNone(func_content) THEN {}
    ELSE {<<w>> : w \in CallCandidates(func_content.some) \ SkippedCalls(analyzer)}

\* JavaAnalyzer.analyze, lines 187-226: the loop over function_pattern
RECURSIVE JavaFunctions(_, _, _)
JavaFunctions(functions, tokens, matches) ==
    IF matches = <<>> THEN functions
    ELSE LET m == Head(matches)
             func_content == extract_block_content("java", tokens, m.end)
         IN JavaFunctions(
                IF is_within_class("JavaAnalyzer", tokens, m.start) THEN functions
                ELSE DictSet(functions, <<m.name>>,
                             [args |-> LastWords(m.params),
                              calls |-> CallsOf("JavaAnalyzer", func_content)]),
                tokens, Tail(matches))

\* GoAnalyzer.analyze, lines 412-442: the loop over func_pattern
RECURSIVE GoFunctions(_, _, _, _)
GoFunctions(functions, content, tokens, matches) ==
    IF matches = <<>> THEN functions
    ELSE LET m == Head(matches)
             func_content == extract_block_content("go", tokens, m.end)
         IN GoFunctions(
                IF is_method_declaration(content, OrigPos(content, m.start)) THEN functions
                ELSE DictSet(functions, <<m.name>>,
                             [args |-> GoArgs(m.params),
                              calls |-> CallsOf("GoAnalyzer", func_content)]),
                content, tokens, Tail(matches))

\* CppAnalyzer.analyze, lines 570-613: the loop over function_pattern
RECURSIVE CppFunctions(_, _, _)
CppFunctions(functions, tokens, matches) ==
    IF matches = <<>> THEN functions
    ELSE LET m == Head(matches)
             func_content == extract_block_content("cpp", tokens, m.end - 1)
         IN CppFunctions(
                IF \/ is_within_class("CppAnalyzer", tokens, m.start)
                   \/ m.name \in {"if", "for", "while", "switch"}
                THEN functions
                ELSE DictSet(functions, <<m.name>>,
                             [args |-> LastWords(m.params),
                              calls |-> CallsOf("CppAnalyzer", func_content)]),
                tokens, Tail(matches))

\* CAnalyzer.analyze, lines 731-776: the loop over func_pattern; a prototype has
\* no calls
RECURSIVE CFunctions(_, _, _)
CFunctions(functions, tokens, matches) ==
    IF matches = <<>> THEN functions
    ELSE LET m == Head(matches)
             is_definition == tokens[m.end] = "{"
             func_content == extract_block_content("cpp", tokens, m.end - 1)
         IN CFunctions(
                IF m.name \in {"if", "for", "while", "switch", "return"} THEN functions
                ELSE DictSet(functions, <<m.name>>,
                             [args |-> IF m.params = <<"void">> THEN <<>>
                                       ELSE LastWords(m.params),
                              calls |-> IF is_definition
                                        THEN CallsOf("CAnalyzer", func_content)
                                        ELSE {}]),
                tokens, Tail(matches))

\* lines 858-870: the methods of a class whose body matches `found`
MethodsAmong(found) ==
    LET named == SelectSeq(found,
                    LAMBDA mm : mm.name \notin {"constructor", "if", "for", "while"})
    IN [k \in DOMAIN named |-> <<named[k].name>>]
          \o (IF \E k \in DOMAIN found : found[k].name = "constructor"
              THEN <<<<"constructor">>>> ELSE <<>>)

\* lines 848-875: the entry of the class matched by m, class_content not None
JsClassEntry(m, class_content) ==
    [bases |-> IF IsNone(m.parent_class) THEN <<>> ELSE <<<<m.parent_class.some>>>>,
     methods |-> MethodsAmong(FindIter("js.shorthand", class_content.some, 0))]

\* JavaScriptAnalyzer.analyze, lines 844-876: the loop over class_pattern, Some
\* of the table it fills; re.search on a class_content of None raises TypeError
RECURSIVE JsClasses(_, _, _)
JsClassesAfter(classes, tokens, matches, class_content) ==
    IF IsNone(class_content)
    THEN [raised |-> <<"expected string or bytes-like object, got 'NoneType'">>]
    ELSE JsClasses(DictSet(classes, <<Head(matches).name>>,
                           JsClassEntry(Head(matches), class_content)),
                   tokens, Tail(matches))
JsClasses(classes, tokens, matches) ==
    IF matches = <<>> THEN Some(classes)
    ELSE JsClassesAfter(classes, tokens, matches,
                        extract_block_content("js", tokens, Head(matches).end - 1))

\* lines 877-889: a declared name with an upper-case initial is a component
RECURSIVE JsComponents(_, _)
JsComponents(classes, matches) ==
    IF matches = <<>> THEN classes
    ELSE LET component_name == Head(matches).name
         IN JsComponents(
                IF component_name \in Capitalized /\ ~DictHas(classes, <<component_name>>)
                THEN DictSet(classes, <<component_name>>,
                             [bases |-> <<>>, methods |-> <<>>, type |-> "component"])
                ELSE classes,
                Tail(matches))

IsComponent(classes, name) ==
    DictHas(classes, name) /\ "type" \in DOMAIN DictGet(classes, name)

\* lines 891-983: the loop over the declarations "function name (params)"
RECURSIVE JsFunctions(_, _, _, _)
JsFunctions(functions, classes, tokens, matches) ==
    IF matches = <<>> THEN functions
    ELSE LET m == Head(matches)
             open_brace_pos == Find(tokens, "{", m.end)
             func_content == IF open_brace_pos # -1
                             THEN extract_block_content("js", tokens, open_brace_pos)
                             ELSE NoneVal
         IN JsFunctions(
                IF IsComponent(classes, <<m.name>>) THEN functions
                ELSE DictSet(functions, <<m.name>>,
                             [args |-> ArgPieces(m.params),
                              calls |-> CallsOf("JavaScriptAnalyzer", func_content)]),
                classes, tokens, Tail(matches))

\* lines 985-1016: the loop over object_method_pattern; the entry is written
\* when a "{" follows the match
RECURSIVE JsObjectMethods(_, _, _)
JsObjectMethods(functions, tokens, matches) ==
    IF matches = <<>> THEN functions
    ELSE LET m == Head(matches)
             open_brace_pos == Find(tokens, "{", m.end)
         IN JsObjectMethods(
                IF open_brace_pos = -1 THEN functions
                ELSE DictSet(functions, <<m.name>>,
                             [args |-> ArgPieces(m.params),
                              calls |-> CallsOf("JavaScriptAnalyzer",
                                                extract_block_content("js", tokens,
                                                                      open_brace_pos))]),
                tokens, Tail(matches))

\* lines 1018-1050: the loop over shorthand_method_pattern
RECURSIVE JsShorthand(_, _, _)
JsShorthand(functions, tokens, matches) ==
    IF matches = <<>> THEN functions
    ELSE LET m == Head(matches)
             func_content == extract_block_content("js", tokens, m.end - 1)
         IN JsShorthand(
                IF \/ DictHas(functions, <<m.name>>)
                   \/ is_within_class("JavaScriptAnalyzer", tokens, m.start)
                THEN functions
                ELSE DictSet(functions, <<m.name>>,
                             [args |-> ArgPieces(m.params),
                              calls |-> CallsOf("JavaScriptAnalyzer", func_content)]),
                tokens, Tail(matches))

\* lines 891-1050 and 1052-1057 of JavaScriptAnalyzer.analyze: the functions
\* table and the tables, after the classes table is filled
JsFunctionTable(classes, tokens, declared) ==
    JsShorthand(JsObjectMethods(JsFunctions(<<>>, classes, tokens, declared),
                                tokens, FindIter("js.object_method", tokens, 0)),
                tokens, FindIter("js.shorthand", tokens, 0))
JsTables(imports, classes, tokens, declared) ==
    [imports |-> imports, classes |-> classes,
     functions |-> JsFunctionTable(classes, tokens, declared)]
JsAfterClasses(imports, own, tokens, declared) ==
    IF "raised" \in DOMAIN own THEN own
    ELSE JsTables(imports, JsComponents(own.some, declared), tokens, declared)

\* the layout of a text: one blank between two tokens, none inside a string
\* literal, around "." and "/", before ";" and between a parenthesis and a string
\* literal. BlankAfter(s, k): a blank follows the k-th token of s
Quotes == {"\"", "'"}
InLiteral(s, k) == Cardinality({j \in 1..k : s[j] \in Quotes}) % 2 = 1
BlankAfter(s, k) ==
    /\ k < Len(s)
    /\ ~InLiteral(s, k)
    /\ s[k] \notin {".", "/"}
    /\ s[k + 1] \notin {".", "/", ";"}
    /\ ~(s[k] = "(" /\ s[k + 1] \in Quotes)
    /\ ~(s[k] \in Quotes /\ s[k + 1] = ")")

\* s.strip(ch), s.split(sep)[-1]
RECURSIVE RStrip(_, _)
RStrip(s, ch) ==
    IF s # <<>> /\ s[Len(s)] = ch THEN RStrip(SubSeq(s, 1, Len(s) - 1), ch) ELSE s
Strip(s, ch) == RStrip(LStrip(s, ch), ch)
LastPart(s, sep) == Split(s, sep)[Len(Split(s, sep))]

\* the string literal that opens at index q: the index of its closing quote, -1
\* when index q holds no quote, the literal is empty or it is not closed
LiteralEnd(tokens, q, quotes) ==
    IF q >= 0 /\ q < Len(tokens) /\ tokens[q + 1] \in quotes
    THEN LET hits == {k \in (q + 1)..(Len(tokens) - 1) : tokens[k + 1] \in quotes}
         IN IF hits = {} \/ Min(hits) = q + 1 THEN -1 ELSE Min(hits)
    ELSE -1

\* JavaAnalyzer.analyze, lines 137-148. [\w.]+ is a dotted name: the end of the
\* run of words and "." that starts at i, no two words in a row
RECURSIVE DottedEnd(_, _, _)
DottedEnd(tokens, start, i) ==
    IF i < Len(tokens) /\ (tokens[i + 1] = "." \/ IsWord(tokens[i + 1]))
       /\ ~(i > start /\ IsWord(tokens[i]) /\ IsWord(tokens[i + 1]))
    THEN DottedEnd(tokens, start, i + 1)
    ELSE i

\* the import statement whose package starts at index p: [end, package, alias]
JavaImportFrom(tokens, p) ==
    LET run_end == DottedEnd(tokens, p, p)
        star == run_end < Len(tokens) /\ run_end > p + 1 /\ tokens[run_end] = "."
                  /\ tokens[run_end + 1] = "*"
        package == Slice(tokens, p, IF star THEN run_end - 1 ELSE run_end)
        next == IF star THEN run_end + 1 ELSE run_end
    IN IF run_end = p THEN NoneVal
       ELSE IF next + 2 < Len(tokens) /\ tokens[next + 1] = "as"
               /\ IsWord(tokens[next + 2]) /\ tokens[next + 3] = ";"
       THEN Some([end |-> next + 3, package |-> package, alias |-> Some(tokens[next + 2])])
       ELSE IF next < Len(tokens) /\ tokens[next + 1] = ";"
       THEN Some([end |-> next + 1, package |-> package, alias |-> NoneVal])
       ELSE NoneVal

JavaImportAt(tokens, i) ==
    IF tokens[i + 1] # "import" THEN NoneVal
    ELSE IF i + 2 < Len(tokens) /\ tokens[i + 2] = "static"
            /\ ~IsNone(JavaImportFrom(tokens, i + 2))
    THEN JavaImportFrom(tokens, i + 2)
    ELSE JavaImportFrom(tokens, i + 1)

RECURSIVE JavaImports(_, _, _)
JavaImportsAfter(imports, tokens, i, m) ==
    IF IsNone(m) THEN JavaImports(imports, tokens, i + 1)
    ELSE JavaImports(DictSet(imports,
                             IF IsNone(m.some.alias) THEN LastPart(m.some.package, ".")
                             ELSE <<m.some.alias.some>>,
                             m.some.package),
                     tokens, m.some.end)
JavaImports(imports, tokens, i) ==
    IF i >= Len(tokens) THEN imports
    ELSE JavaImportsAfter(imports, tokens, i, JavaImportAt(tokens, i))

\* GoAnalyzer.analyze, lines 314-331: the lines of one import block; a line with
\* a blank is split into the alias and the path
RECURSIVE GoBlockLines(_, _)
GoBlockLine(imports, line) ==
    LET blanks == {k \in 1..(Len(line) - 1) : BlankAfter(line, k)}
    IN IF line = <<>> THEN imports
       ELSE IF blanks # {}
       THEN DictSet(imports, SubSeq(line, 1, Min(blanks)),
                    Strip(SubSeq(line, Min(blanks) + 1, Len(line)), "\""))
       ELSE DictSet(imports, LastPart(Strip(line, "\""), "/"), Strip(line, "\""))
GoBlockLines(imports, lines) ==
    IF lines = <<>> THEN imports
    ELSE GoBlockLines(GoBlockLine(imports, SelectSeq(Head(lines), LAMBDA t : t # "")),
                      Tail(lines))

\* line 310: import\s+\(([\s\S]*?)\) at index i of the content: the index of the
\* ")" that ends the block, -1 when the pattern does not match there
GoBlockOpen(content, i) ==
    LET after == {k \in (i + 1)..(Len(content) - 1) : ~IsSpace(content[k + 1])}
    IN IF content[i + 1] = "import" /\ after # {} /\ content[Min(after) + 1] = "("
       THEN Min(after) ELSE -1
GoBlockEnd(content, i) ==
    IF GoBlockOpen(content, i) = -1 THEN -1 ELSE Find(content, ")", GoBlockOpen(content, i))

RECURSIVE GoBlocks(_, _, _)
GoBlocks(imports, content, i) ==
    IF i >= Len(content) THEN imports
    ELSE IF GoBlockEnd(content, i) = -1 THEN GoBlocks(imports, content, i + 1)
    ELSE GoBlocks(GoBlockLines(imports,
                               Split(Slice(content, GoBlockOpen(content, i) + 1,
                                           GoBlockEnd(content, i)), "\n")),
                  content, GoBlockEnd(content, i) + 1)

\* line 311: import\s+(?:"([^"]+)"|\w+\s+"([^"]+)") at index i: the indices of
\* the two quotes, or None
GoSingleAt(tokens, i) ==
    LET q == IF i + 1 < Len(tokens) /\ IsWord(tokens[i + 2]) THEN i + 2 ELSE i + 1
    IN IF tokens[i + 1] = "import" /\ LiteralEnd(tokens, q, {"\""}) # -1
       THEN Some([open |-> q, close |-> LiteralEnd(tokens, q, {"\""})])
       ELSE NoneVal

\* lines 334-337: the key of a single-line import is the last part of its path
RECURSIVE GoSingles(_, _, _)
GoSinglesAfter(imports, tokens, i, m) ==
    IF IsNone(m) THEN GoSingles(imports, tokens, i + 1)
    ELSE GoSingles(DictSet(imports,
                           LastPart(Slice(tokens, m.some.open + 1, m.some.close), "/"),
                           Slice(tokens, m.some.open + 1, m.some.close)),
                   tokens, m.some.close + 1)
GoSingles(imports, tokens, i) ==
    IF i >= Len(tokens) THEN imports
    ELSE GoSinglesAfter(imports, tokens, i, GoSingleAt(tokens, i))

GoImports(content, tokens) == GoSingles(GoBlocks(<<>>, content, 0), tokens, 0)

\* JavaScriptAnalyzer.analyze, lines 806-822. The match of import_pattern at
\* index i: [end, named, default_import, module_path], or None
JsFromAt(tokens, f) ==
    IF f < Len(tokens) /\ tokens[f + 1] = "from" /\ LiteralEnd(tokens, f + 1, Quotes) # -1
    THEN LiteralEnd(tokens, f + 1, Quotes) ELSE -1
JsImportAt(tokens, i) ==
    LET close == Find(tokens, "}", i + 2)
    IN IF tokens[i + 1] # "import" \/ i + 1 >= Len(tokens) THEN NoneVal
       ELSE IF tokens[i + 2] = "{" /\ close # -1 /\ JsFromAt(tokens, close + 1) # -1
       THEN Some([end |-> JsFromAt(tokens, close + 1) + 1,
                  named |-> Some(Slice(tokens, i + 2, close)),
                  default_import |-> NoneVal,
                  module_path |-> Slice(tokens, close + 3, JsFromAt(tokens, close + 1))])
       ELSE IF IsWord(tokens[i + 2]) /\ JsFromAt(tokens, i + 2) # -1
       THEN Some([end |-> JsFromAt(tokens, i + 2) + 1,
                  named |-> NoneVal,
                  default_import |-> Some(tokens[i + 2]),
                  module_path |-> Slice(tokens, i + 4, JsFromAt(tokens, i + 2))])
       ELSE NoneVal

\* the indices of the " as " of a piece, as split and replace find them from
\* left to right: an "as" with a token on either side, the one before it not the
\* end of another " as "
AsRun(piece, k) ==
    Min({j \in 2..k : \A i \in j..k : piece[i] = "as"})
AsAt(piece) ==
    {k \in 2..(Len(piece) - 1) : piece[k] = "as" /\ (k - AsRun(piece, k)) % 2 = 0}

\* lines 814-822: the entries of the names between the braces; imports is the
\* table, or the exception raised by unpacking
RECURSIVE JsNamed(_, _, _)
JsNamedPiece(imports, module_path, piece) ==
    IF Cardinality(AsAt(piece)) > 1
    THEN [raised |-> <<"too many values to unpack (expected 2)">>]
    ELSE IF AsAt(piece) # {}
    THEN Some(DictSet(imports.some, SubSeq(piece, Min(AsAt(piece)) + 1, Len(piece)),
                      module_path \o <<":">> \o SubSeq(piece, 1, Min(AsAt(piece)) - 1)))
    ELSE Some(DictSet(imports.some, piece, module_path \o <<":">> \o piece))
JsNamed(imports, module_path, pieces) ==
    IF pieces = <<>> \/ "raised" \in DOMAIN imports THEN imports
    ELSE JsNamed(JsNamedPiece(imports, module_path, Head(pieces)), module_path, Tail(pieces))

RECURSIVE JsEs6Imports(_, _, _)
JsEs6After(imports, tokens, i, m) ==
    IF IsNone(m) THEN JsEs6Imports(imports, tokens, i + 1)
    ELSE IF ~IsNone(m.some.default_import)
    THEN JsEs6Imports(Some(DictSet(imports.some, <<m.some.default_import.some>>,
                                   m.some.module_path)),
                      tokens, m.some.end)
    ELSE JsEs6Imports(JsNamed(imports, m.some.module_path, Split(m.some.named.some, ",")),
                      tokens, m.some.end)
JsEs6Imports(imports, tokens, i) ==
    IF i >= Len(tokens) \/ "raised" \in DOMAIN imports THEN imports
    ELSE JsEs6After(imports, tokens, i, JsImportAt(tokens, i))

\* lines 825-842. The part of require_pattern after the name or the braces, from
\* index e on: = require ( 'module' ); the index of the closing quote, or -1
JsRequireFrom(tokens, e) ==
    IF e + 2 < Len(tokens) /\ tokens[e + 1] = "=" /\ tokens[e + 2] = "require"
       /\ tokens[e + 3] = "(" /\ LiteralEnd(tokens, e + 3, Quotes) # -1
       /\ LiteralEnd(tokens, e + 3, Quotes) + 1 < Len(tokens)
       /\ tokens[LiteralEnd(tokens, e + 3, Quotes) + 2] = ")"
    THEN LiteralEnd(tokens, e + 3, Quotes) ELSE -1

\* the match of require_pattern whose name or braces start at index s
JsRequireTarget(tokens, s) ==
    LET close == Find(tokens, "}", s + 1)
    IN IF s >= Len(tokens) THEN NoneVal
       ELSE IF tokens[s + 1] = "{" /\ close # -1 /\ JsRequireFrom(tokens, close + 1) # -1
       THEN Some([end |-> JsRequireFrom(tokens, close + 1) + 2,
                  destructured |-> Some(Slice(tokens, s + 1, close)),
                  variable_name |-> NoneVal,
                  module_path |-> Slice(tokens, close + 5, JsRequireFrom(tokens, close + 1))])
       ELSE IF IsWord(tokens[s + 1]) /\ JsRequireFrom(tokens, s + 1) # -1
       THEN Some([end |-> JsRequireFrom(tokens, s + 1) + 2,
                  destructured |-> NoneVal,
                  variable_name |-> Some(tokens[s + 1]),
                  module_path |-> Slice(tokens, s + 5, JsRequireFrom(tokens, s + 1))])
       ELSE NoneVal
JsRequireAt(tokens, i) ==
    IF tokens[i + 1] \in {"const", "let", "var"} /\ ~IsNone(JsRequireTarget(tokens, i + 1))
    THEN JsRequireTarget(tokens, i + 1)
    ELSE JsRequireTarget(tokens, i)

\* lines 833-842: the entries of the destructured names
RECURSIVE JsDestructured(_, _, _)
JsRenamed(imports, module_path, parts) ==
    IF Len(parts) >= 2
    THEN DictSet(imports, parts[2], module_path \o <<":">> \o parts[1])
    ELSE imports
JsDestructuredPiece(imports, module_path, piece) ==
    IF AsAt(piece) # {} \/ ":" \in Range(piece)
    THEN JsRenamed(imports, module_path,
                   Split([k \in DOMAIN piece |->
                             IF k \in AsAt(piece) THEN ":" ELSE piece[k]], ":"))
    ELSE DictSet(imports, piece, module_path \o <<":">> \o piece)
JsDestructured(imports, module_path, pieces) ==
    IF pieces = <<>> THEN imports
    ELSE JsDestructured(JsDestructuredPiece(imports, module_path, Head(pieces)),
                        module_path, Tail(pieces))

RECURSIVE JsRequires(_, _, _)
JsRequiresAfter(imports, tokens, i, m) ==
    IF IsNone(m) THEN JsRequires(imports, tokens, i + 1)
    ELSE IF ~IsNone(m.some.variable_name)
    THEN JsRequires(DictSet(imports, <<m.some.variable_name.some>>, m.some.module_path),
                    tokens, m.some.end)
    ELSE JsRequires(JsDestructured(imports, m.some.module_path,
                                   Split(m.some.destructured.some, ",")),
                    tokens, m.some.end)
JsRequires(imports, tokens, i) ==
    IF i >= Len(tokens) THEN imports
    ELSE JsRequiresAfter(imports, tokens, i, JsRequireAt(tokens, i))

\* the imports table of JavaScriptAnalyzer, or the exception raised on the way
JsImports(tokens) ==
    IF "raised" \in DOMAIN JsEs6Imports(Some(<<>>), tokens, 0)
    THEN JsEs6Imports(Some(<<>>), tokens, 0)
    ELSE Some(JsRequires(JsEs6Imports(Some(<<>>), tokens, 0).some, tokens, 0))

\* the body of the try block of analyze: the tables, `calls` still a set in every
\* function entry, or the exception raised
JavaTables(tokens, wide) ==
    [imports |-> JavaImports(<<>>, tokens, 0), classes |-> <<>>,
     functions |-> JavaFunctions(<<>>, tokens, FindTyped("java.function", tokens, wide, 0))]
GoTables(content, tokens) ==
    [imports |-> GoImports(content, tokens), classes |-> <<>>,
     functions |-> GoFunctions(<<>>, content, tokens, FindIter("go.func", tokens, 0))]
CppTables(tokens) ==
    [imports |-> <<>>, classes |-> <<>>,
     functions |-> CppFunctions(<<>>, tokens, FindIter("cpp.function", tokens, 0))]
CTables(tokens, wide) ==
    [imports |-> <<>>, classes |-> <<>>,
     functions |-> CFunctions(<<>>, tokens, FindTyped("c.function", tokens, wide, 0))]
CAnalyze(content) == CTables(Unlines(content), Wide(content))
JsAnalyze(tokens) ==
    IF "raised" \in DOMAIN JsImports(tokens) THEN JsImports(tokens)
    ELSE JsAfterClasses(JsImports(tokens).some,
                        JsClasses(<<>>, tokens, FindIter("js.class", tokens, 0)),
                        tokens, FindIter("js.function", tokens, 0))

TryAnalyze(analyzer, content) ==
    CASE analyzer = "JavaAnalyzer" -> JavaTables(Unlines(content), Wide(content))
      [] analyzer = "GoAnalyzer" -> GoTables(content, Unlines(content))
      [] analyzer = "CppAnalyzer" -> CppTables(Unlines(remove_comments(content)))
      [] analyzer = "CAnalyzer" -> CAnalyze(remove_comments(content))
      [] analyzer = "JavaScriptAnalyzer" -> JsAnalyze(Unlines(remove_comments(content)))

\* the order in which a set of names is listed: it depends on the hash seed of
\* the process; seed 0 lists the names in the order of HashOrder, seed 1 in the
\* reverse order
HashSeeds == {0, 1}
HashOrder ==
    <<"App", "constructor", "f", "for", "g", "h", "if", "m", "switch", "while">>
Rank(seed, name) ==
    LET k == CHOOSE k \in DOMAIN HashOrder : <<HashOrder[k]>> = name
    IN IF seed = 0 THEN k ELSE Len(HashOrder) + 1 - k

\* list(S) for a set S of names
RECURSIVE ListOf(_, _)
ListOf(seed, S) ==
    IF S = {} THEN <<>>
    ELSE LET first == CHOOSE x \in S : \A y \in S : Rank(seed, x) <= Rank(seed, y)
         IN <<first>> \o ListOf(seed, S \ {first})

\* the record analyze returns after a try block that ended without exception
Returns(seed, tables) ==
    [imports |-> tables.imports,
     functions |-> [k \in DOMAIN tables.functions |->
                      <<tables.functions[k][1],
                        [args |-> tables.functions[k][2].args,
                         calls |-> ListOf(seed, tables.functions[k][2].calls)]>>],
     classes |-> tables.classes,
     calls |-> ListOf(seed, UNION {tables.functions[k][2].calls :
                                      k \in DOMAIN tables.functions})]

\* the message prefix of the except clause of each analyze
ErrorPrefix(analyzer) ==
    CASE analyzer = "JavaAnalyzer" -> "Java analysis error: "
      [] analyzer = "GoAnalyzer" -> "Go analysis error: "
      [] analyzer = "CppAnalyzer" -> "C++ analysis error: "
      [] analyzer = "CAnalyzer" -> "C analysis error: "
      [] analyzer = "JavaScriptAnalyzer" -> "JavaScript analysis error: "

\* try: ... except Exception as e: return {"error": ...}
CatchMutReraise(analyzer, seed, tried) ==
    IF "raised" \in DOMAIN tried THEN tried ELSE Returns(seed, tried)
Catch(analyzer, seed, tried) ==
    IF "raised" \in DOMAIN tried
    THEN [error |-> <<ErrorPrefix(analyzer)>> \o tried.raised]
    ELSE Returns(seed, tried)

\* the tokens of a content given to a heuristic extractor
TokensOf(content) ==
    CASE content.text = "tokens" -> content.tokens
      [] content.text = "empty" -> <<>>

\* analyze(file_path, content) of the five heuristic extractors, content loaded
HeuristicAnalyze(analyzer, seed, content) ==
    Catch(analyzer, seed, TryAnalyze(analyzer, TokensOf(content)))

(***************************************************************************)
(* AnalysisService: path and file-type helpers.                            *)
(***************************************************************************)
\* the index after the first part holding a clone marker, 0 when there is none
RECURSIVE CloneMarkerEnd(_, _)
CloneMarkerEnd(parts, i) ==
    IF i >= Len(parts) THEN 0
    ELSE IF Contains(parts[i + 1], <<"github_", "clone_">>) \/ Contains(parts[i + 1], <<"clone_">>)
         THEN i + 1
         ELSE CloneMarkerEnd(parts, i + 1)

normalize_path(file_path) ==
    LET path == IF "\\" \in Range(file_path) THEN Replace(file_path, "\\", "/") ELSE file_path
        parts == Split(path, "/")
        start_idx == CloneMarkerEnd(parts, 0)
    IN IF /\ Len(parts) > 3
          /\ (<<"tmp">> \in Range(parts) \/ <<"temp">> \in Range(parts)
                \/ <<"code_analyzer">> \in Range(parts))
          /\ start_idx > 0
       THEN Join(Slice(parts, start_idx, Len(parts)), "/")
       ELSE path

\* name.split('.')[-1].lower() if '.' in name else ''
ExtensionOf(name) ==
    IF "." \in Range(name)
    THEN LET pieces == Split(name, ".") IN Lower(pieces[Len(pieces)])
    ELSE <<>>

\* _get_file_type; the substrings it looks for in the name are tokens of the model
get_file_type(filename, extension) ==
    LET lower == Lower(filename) IN
    IF \/ Contains(lower, <<"db", ".">>) \/ "database" \in Range(lower)
       \/ Contains(lower, <<".", "sql">>) \/ "mydb" \in Range(lower)
       \/ Contains(lower, <<".", "sqlite">>)
    THEN "database"
    ELSE IF extension \in {<<"cnf">>, <<"conf">>, <<"config">>, <<"ini">>, <<"yml">>,
                           <<"yaml">>, <<"toml">>, <<"env">>}
    THEN "config"
    ELSE IF extension = <<"py">> THEN "python"
    ELSE IF extension = <<"js">> THEN "javascript"
    ELSE IF extension = <<"java">> THEN "java"
    ELSE IF extension = <<"go">> THEN "go"
    ELSE IF extension \in {<<"html">>, <<"htm">>, <<"css">>, <<"scss">>, <<"less">>,
                           <<"svg">>, <<"json">>, <<"xml">>}
    THEN "web"
    ELSE IF extension \in {<<"md">>, <<"txt">>, <<"rst">>, <<"pdf">>, <<"doc">>, <<"docx">>}
    THEN "document"
    ELSE "other"

\* generate_file_summary: the empty-content case, the markdown case and the default
generate_file_summary(file_path, content) ==
    IF content.text = "empty" THEN <<"Empty file">>
    ELSE IF ExtensionOf(Basename(file_path)) = <<"md">> \/ Lower(Basename(file_path)) = <<"readme">>
         THEN <<"Documentation: ", "...">>
         ELSE <<"File preview:\n", "...">>

(***************************************************************************)
(* _prepare_visualization_data. The builder's locals are the record        *)
(* [nodes, links, node_map, node_id]; a link target is a node id,          *)
(* [id |-> n], or a name, [name |-> s].                                    *)
(***************************************************************************)
NodeRef(n) == [id |-> n]
NameRef(s) == [name |-> s]

\* lines 315-323: the tentative calls links of one function
TentativeCallsMutOncePerName(func_node_id, calls) ==
    LET first == SelectSeq([k \in DOMAIN calls |-> k],
                           LAMBDA k : \A j \in 1..(k - 1) : calls[j] # calls[k])
    IN [k \in DOMAIN first |->
           [source |-> func_node_id, target |-> NameRef(calls[first[k]]), type |-> "calls",
            temp |-> TRUE]]
TentativeCalls(func_node_id, calls) ==
    [k \in DOMAIN calls |->
        [source |-> func_node_id, target |-> NameRef(calls[k]), type |-> "calls",
         temp |-> TRUE]]

\* lines 294-323: the loop over analysis['functions']
RECURSIVE AddFunctions(_, _, _, _, _)
AddFunctionsMutNoContains(b, file_path, normalized_path, file_node_id, functions) ==
    IF functions = <<>> THEN b
    ELSE LET func_name == Head(functions)[1]
             details == Head(functions)[2]
             nb == [nodes |-> Append(b.nodes,
                        [id |-> b.node_id, name |-> func_name, path |-> normalized_path,
                         type |-> "function", args |-> details.args]),
                    node_map |-> DictSet(b.node_map, file_path \o <<":">> \o func_name, b.node_id),
                    node_id |-> b.node_id + 1,
                    links |-> b.links \o TentativeCalls(b.node_id, details.calls)]
         IN AddFunctions(nb, file_path, normalized_path, file_node_id, Tail(functions))
AddFunctions(b, file_path, normalized_path, file_node_id, functions) ==
    IF functions = <<>> THEN b
    ELSE LET func_name == Head(functions)[1]
             details == Head(functions)[2]
             nb == [nodes |-> Append(b.nodes,
                        [id |-> b.node_id, name |-> func_name, path |-> normalized_path,
                         type |-> "function", args |-> details.args]),
                    node_map |-> DictSet(b.node_map, file_path \o <<":">> \o func_name, b.node_id),
                    node_id |-> b.node_id + 1,
                    links |-> Append(b.links,
                        [source |-> file_node_id, target |-> NodeRef(b.node_id),
                         type |-> "contains"])
                        \o TentativeCalls(b.node_id, details.calls)]
         IN AddFunctions(nb, file_path, normalized_path, file_node_id, Tail(functions))

\* lines 327-346: the loop over analysis['classes']
RECURSIVE AddClasses(_, _, _, _, _)
AddClasses(b, file_path, normalized_path, file_node_id, classes) ==
    IF classes = <<>> THEN b
    ELSE LET class_name == Head(classes)[1]
             details == Head(classes)[2]
             nb == [nodes |-> Append(b.nodes,
                        [id |-> b.node_id, name |-> class_name, path |-> normalized_path,
                         type |-> "class", methods |-> details.methods,
                         bases |-> details.bases]),
                    node_map |-> DictSet(b.node_map, file_path \o <<":">> \o class_name, b.node_id),
                    node_id |-> b.node_id + 1,
                    links |-> Append(b.links,
                        [source |-> file_node_id, target |-> NodeRef(b.node_id),
                         type |-> "contains"])]
         IN AddClasses(nb, file_path, normalized_path, file_node_id, Tail(classes))

\* lines 272-346: the body of the pass-1 loop for one file
AddFileMutSkipErrors(b, file_path, analysis) ==
    LET normalized_path == normalize_path(file_path)
        file_name == Basename(normalized_path)
        extension == ExtensionOf(file_name)
        file_node_id == b.node_id
        b1 == [nodes |-> Append(b.nodes,
                    [id |-> b.node_id, name |-> file_name, path |-> normalized_path,
                     type |-> "file", file_type |-> get_file_type(file_name, extension),
                     summary |-> IF "summary" \in DOMAIN analysis
                                 THEN analysis.summary ELSE <<>>]),
               node_map |-> DictSet(b.node_map, file_path, b.node_id),
               node_id |-> b.node_id + 1,
               links |-> b.links]
        b2 == IF "functions" \in DOMAIN analysis
              THEN AddFunctions(b1, file_path, normalized_path, file_node_id,
                                analysis.functions)
              ELSE b1
    IN IF "error" \in DOMAIN analysis THEN b
       ELSE IF "classes" \in DOMAIN analysis
       THEN AddClasses(b2, file_path, normalized_path, file_node_id, analysis.classes)
       ELSE b2
AddFile(b, file_path, analysis) ==
    LET normalized_path == normalize_path(file_path)
        file_name == Basename(normalized_path)
        extension == ExtensionOf(file_name)
        file_node_id == b.node_id
        b1 == [nodes |-> Append(b.nodes,
                    [id |-> b.node_id, name |-> file_name, path |-> normalized_path,
                     type |-> "file", file_type |-> get_file_type(file_name, extension),
                     summary |-> IF "summary" \in DOMAIN analysis
                                 THEN analysis.summary ELSE <<>>]),
               node_map |-> DictSet(b.node_map, file_path, b.node_id),
               node_id |-> b.node_id + 1,
               links |-> b.links]
        b2 == IF "functions" \in DOMAIN analysis
              THEN AddFunctions(b1, file_path, normalized_path, file_node_id,
                                analysis.functions)
              ELSE b1
    IN IF "classes" \in DOMAIN analysis
       THEN AddClasses(b2, file_path, normalized_path, file_node_id, analysis.classes)
       ELSE b2

\* lines 359-367: the first function node named target_name, None when there is none
FirstFunctionNamedMutLast(all_nodes, target_name) ==
    LET hits == {k \in DOMAIN all_nodes :
                    all_nodes[k].type = "function" /\ all_nodes[k].name = target_name}
    IN IF hits = {} THEN NoneVal
       ELSE Some(all_nodes[CHOOSE k \in hits : \A j \in hits : j <= k])
FirstFunctionNamed(all_nodes, target_name) ==
    LET hits == {k \in DOMAIN all_nodes :
                    all_nodes[k].type = "function" /\ all_nodes[k].name = target_name}
    IN IF hits = {} THEN NoneVal
       ELSE Some(all_nodes[CHOOSE k \in hits : \A j \in hits : k <= j])

\* lines 351-379: what pass 2 appends to actual_links for one link
ResolveLinkMutNever(all_nodes, link) ==
    IF "temp" \in DOMAIN link /\ link.temp
    THEN [source |-> link.source,
          target |-> NameRef(<<"unknown:">> \o link.target.name),
          targetName |-> link.target.name, type |-> "calls"]
    ELSE link
ResolveLinkMutEarlierOnly(all_nodes, link) ==
    IF "temp" \in DOMAIN link /\ link.temp
    THEN LET target_name == link.target.name
             node == FirstFunctionNamed(SubSeq(all_nodes, 1, link.source + 1), target_name)
         IN IF ~IsNone(node)
            THEN [source |-> link.source, target |-> NodeRef(node.some.id), type |-> "calls"]
            ELSE [source |-> link.source,
                  target |-> NameRef(<<"unknown:">> \o target_name),
                  targetName |-> target_name, type |-> "calls"]
    ELSE link
ResolveLinkMutRawTarget(all_nodes, link) ==
    IF "temp" \in DOMAIN link /\ link.temp
    THEN LET target_name == link.target.name
             node == FirstFunctionNamed(all_nodes, target_name)
         IN IF ~IsNone(node)
            THEN [source |-> link.source, target |-> NodeRef(node.some.id), type |-> "calls"]
            ELSE [source |-> link.source, target |-> NameRef(target_name), type |-> "calls"]
    ELSE link
ResolveLink(all_nodes, link) ==
    IF "temp" \in DOMAIN link /\ link.temp
    THEN LET target_name == link.target.name
             node == FirstFunctionNamed(all_nodes, target_name)
         IN IF ~IsNone(node)
            THEN [source |-> link.source, target |-> NodeRef(node.some.id), type |-> "calls"]
            ELSE [source |-> link.source,
                  target |-> NameRef(<<"unknown:">> \o target_name),
                  targetName |-> target_name, type |-> "calls"]
    ELSE link

\* line 392: a module node is created for a prefix not yet in module_map
ModuleIsNewMutAlways(map, path) == TRUE
ModuleIsNew(map, path) == ~DictHas(map, path)

\* lines 385-417: the module hierarchy loop for one file; m is
\* [nodes, actual_links, module_map, node_id], i the index into parts[:-1]
RECURSIVE AddModulesMutFileAsSource(_, _, _, _, _)
AddModulesMutFileAsSource(m, file_path, dirs, i, current_path) ==
    IF i >= Len(dirs) THEN m
    ELSE LET part == dirs[i + 1]
             parent_path == current_path
             path == LStrip(current_path \o <<"/">> \o part, "/")
             fresh == ModuleIsNew(m.module_map, path)
             nodes1 == IF fresh
                       THEN Append(m.nodes, [id |-> m.node_id, name |-> part,
                                             path |-> path, type |-> "module"])
                       ELSE m.nodes
             map1 == IF fresh THEN DictSet(m.module_map, path, m.node_id) ELSE m.module_map
             id1 == IF fresh THEN m.node_id + 1 ELSE m.node_id
             links1 == IF fresh /\ parent_path # <<>> /\ DictHas(map1, parent_path)
                       THEN Append(m.actual_links,
                                [source |-> DictGet(map1, parent_path),
                                 target |-> NodeRef(DictGet(map1, path)),
                                 type |-> "contains"])
                       ELSE m.actual_links
             links2 == IF DictHas(m.node_map, file_path)
                       THEN Append(links1,
                                [source |-> DictGet(m.node_map, file_path),
                                 target |-> NodeRef(DictGet(map1, path)),
                                 type |-> "contains"])
                       ELSE links1
         IN AddModulesMutFileAsSource([m EXCEPT !.nodes = nodes1, !.module_map = map1, !.node_id = id1,
                                 !.actual_links = links2],
                       file_path, dirs, i + 1, path)
RECURSIVE AddModules(_, _, _, _, _)
AddModules(m, file_path, dirs, i, current_path) ==
    IF i >= Len(dirs) THEN m
    ELSE LET part == dirs[i + 1]
             parent_path == current_path
             path == LStrip(current_path \o <<"/">> \o part, "/")
             fresh == ModuleIsNew(m.module_map, path)
             nodes1 == IF fresh
                       THEN Append(m.nodes, [id |-> m.node_id, name |-> part,
                                             path |-> path, type |-> "module"])
                       ELSE m.nodes
             map1 == IF fresh THEN DictSet(m.module_map, path, m.node_id) ELSE m.module_map
             id1 == IF fresh THEN m.node_id + 1 ELSE m.node_id
             links1 == IF fresh /\ parent_path # <<>> /\ DictHas(map1, parent_path)
                       THEN Append(m.actual_links,
                                [source |-> DictGet(map1, parent_path),
                                 target |-> NodeRef(DictGet(map1, path)),
                                 type |-> "contains"])
                       ELSE m.actual_links
             links2 == IF DictHas(m.node_map, file_path)
                       THEN Append(links1,
                                [source |-> DictGet(map1, path),
                                 target |-> NodeRef(DictGet(m.node_map, file_path)),
                                 type |-> "contains"])
                       ELSE links1
         IN AddModules([m EXCEPT !.nodes = nodes1, !.module_map = map1, !.node_id = id1,
                                 !.actual_links = links2],
                       file_path, dirs, i + 1, path)

(***************************************************************************)
(* analyze_project: the handler, one action per step of it.                *)
(***************************************************************************)
\* register_analyzer, line 25: self.analyzers[extension] = analyzer
register_analyzerMutKeepEarlier(registry, extension, analyzer) ==
    IF DictHas(registry, extension) THEN registry ELSE DictSet(registry, extension, analyzer)
register_analyzer(registry, extension, analyzer) == DictSet(registry, extension, analyzer)

\* __init__, lines 18-21: the registry after construction, and the call that made it
DefaultRegistrations == <<<<<<"py">>, "PythonAnalyzer">>>>
DefaultAnalyzers == register_analyzer(<<>>, <<"py">>, "PythonAnalyzer")

\* the extensions that are keys of self.analyzers
RegisteredExtensions == Range(DictKeys(analyzers))

\* analyzer.analyze(file_path, content) of a registered analyzer: a record, or the
\* exception that leaves it
Analyze(analyzer, file_path, content) ==
    IF analyzer = "PythonAnalyzer" THEN PythonAnalyze(file_path, content)
    ELSE HeuristicAnalyze(analyzer, hash_seed, content)

\* line 220: analysis['summary'] = ...; an exception that left analyze is passed on
WithSummary(analysis, summary) ==
    IF "raised" \in DOMAIN analysis THEN analysis
    ELSE analysis @@ [summary |-> summary]
\* lines 204-220: the analysis of one file, with its summary
AnalyzeOne(file_path, content) ==
    WithSummary(IF ExtensionOf(file_path) \in RegisteredExtensions
                THEN Analyze(DictGet(analyzers, ExtensionOf(file_path)), file_path, content)
                ELSE [imports |-> <<>>, functions |-> <<>>, classes |-> <<>>],
                generate_file_summary(file_path, content))

\* lines 265-268: the builder's locals at the start of a call
FreshBuilderMutKeepCounter(old_node_id) ==
    [nodes |-> <<>>, links |-> <<>>, node_map |-> <<>>, node_id |-> old_node_id]
FreshBuilderMutStartAtOne(old_node_id) ==
    [nodes |-> <<>>, links |-> <<>>, node_map |-> <<>>, node_id |-> 1]
FreshBuilder(old_node_id) ==
    [nodes |-> <<>>, links |-> <<>>, node_map |-> <<>>, node_id |-> 0]

\* lines 255-423: _prepare_visualization_data as a function of analysis_results,
\* the three loops run to their end
RECURSIVE Pass1(_, _)
Pass1(b, results) ==
    IF results = <<>> THEN b
    ELSE Pass1(AddFile(b, Head(results)[1], Head(results)[2]), Tail(results))

RECURSIVE ModulePass(_, _)
ModulePass(m, results) ==
    IF results = <<>> THEN m
    ELSE LET file_path == Head(results)[1]
             parts == Split(normalize_path(file_path), "/")
         IN ModulePass(AddModules(m, file_path, Slice(parts, 0, Len(parts) - 1), 0, <<>>),
                       Tail(results))

prepare_visualization_data(results) ==
    LET b == Pass1(FreshBuilder(0), results)
        resolved == [k \in DOMAIN b.links |-> ResolveLink(b.nodes, b.links[k])]
        m == ModulePass([nodes |-> b.nodes, actual_links |-> resolved, module_map |-> <<>>,
                         node_id |-> b.node_id, node_map |-> b.node_map],
                        results)
    IN [nodes |-> m.nodes, links |-> m.actual_links, modules |-> DictKeys(m.module_map)]

\* lines 232-239: FileAnalysis(...); 'summary' is no field of the model and is dropped
FileAnalysis(normalized_path, analysis) ==
    [file_path |-> normalized_path,
     imports |-> IF "imports" \in DOMAIN analysis THEN analysis.imports ELSE <<>>,
     functions |-> IF "functions" \in DOMAIN analysis THEN analysis.functions ELSE <<>>,
     classes |-> IF "classes" \in DOMAIN analysis THEN analysis.classes ELSE <<>>,
     errors |-> IF "error" \in DOMAIN analysis THEN Some(<<analysis.error>>) ELSE NoneVal]

\* lines 227-239: the loop filling structured_analysis
RECURSIVE Structure(_, _)
Structure(acc, results) ==
    IF results = <<>> THEN acc
    ELSE LET normalized_path == normalize_path(Head(results)[1])
         IN Structure(DictSet(acc, normalized_path,
                              FileAnalysis(normalized_path, Head(results)[2])),
                      Tail(results))

\* entities.AnalysisResults: the fields without a default, and all fields
AnalysisResultsRequired == {"project_id", "files_analyzed", "structure", "visualizations"}
AnalysisResultsFields == AnalysisResultsRequired \cup {"timestamp", "llm_analysis"}

\* AnalysisResults(**kwargs): a missing required field is a ValidationError (None
\* here), a keyword that is no field is ignored
NewAnalysisResults(kwargs) ==
    IF AnalysisResultsRequired \subseteq DOMAIN kwargs
    THEN Some([f \in (DOMAIN kwargs \cap AnalysisResultsFields) |-> kwargs[f]])
    ELSE NoneVal

Raised(message) == [raised |-> <<"AnalysisError">> \o message]
Returned(results) == [returned |-> results]

\* lines 192-199: get_code_files gave `files`; an empty list raises
GetCodeFiles ==
    /\ pc = "start"
    /\ IF files = <<>>
       THEN /\ outcome' = Raised(<<"Error during project analysis: ",
                                   "No code files found in the project">>)
            /\ pc' = "done"
       ELSE /\ outcome' = NoneVal
            /\ pc' = "analyze"
    /\ idx' = 0
    /\ analysis_results' = <<>>
    /\ UNCHANGED <<analyzers, registered, hash_seed>>
    /\ UNCHANGED <<scan, read, files, disk, nodes, links, node_map, node_id, actual_links,
                   module_map, visualization_data, structured_analysis, run, previous_data>>

\* a register_analyzer call made by the application before analyze_project
RegisterAnalyzer(extension, analyzer) ==
    /\ pc = "start"
    /\ run = 1
    /\ Len(registered) < Len(DefaultRegistrations) + MaxRegister
    /\ analyzers' = register_analyzer(analyzers, extension, analyzer)
    /\ registered' = Append(registered, <<extension, analyzer>>)
    /\ UNCHANGED <<scan, read, files, disk, pc, idx, analysis_results, nodes, links, node_map,
                   node_id, actual_links, module_map, visualization_data,
                   structured_analysis, outcome, run, previous_data, hash_seed>>

\* line 221: analysis_results[file_path] = analysis; lines 252-253 for an
\* exception that left analyze
StoreAnalysis(file_path, analysis) ==
    IF "raised" \in DOMAIN analysis
    THEN /\ outcome' = Raised(<<"Error during project analysis: ">> \o analysis.raised)
         /\ pc' = "done"
         /\ UNCHANGED <<analysis_results, idx>>
    ELSE /\ analysis_results' = DictSet(analysis_results, file_path, analysis)
         /\ idx' = idx + 1
         /\ UNCHANGED <<outcome, pc>>
\* lines 203-221: one iteration of the loop over files; a read_file failure
\* (FileServiceError) or an exception leaving analyze leaves through the
\* handler's except clause
AnalyzeFile ==
    /\ pc = "analyze"
    /\ idx < Len(files)
    /\ IF disk[idx + 1] = Unreadable
       THEN /\ outcome' = Raised(<<"Error during project analysis: ",
                                   "Error reading file ">> \o files[idx + 1])
            /\ pc' = "done"
            /\ UNCHANGED <<analysis_results, idx>>
       ELSE StoreAnalysis(files[idx + 1], AnalyzeOne(files[idx + 1], disk[idx + 1]))
    /\ UNCHANGED <<analyzers, registered, hash_seed>>
    /\ UNCHANGED <<scan, read, files, disk, nodes, links, node_map, node_id, actual_links,
                   module_map, visualization_data, structured_analysis, run, previous_data>>

\* line 224 and lines 265-268: _prepare_visualization_data is entered
BeginBuild ==
    /\ pc = "analyze"
    /\ idx = Len(files)
    /\ LET b == FreshBuilder(node_id)
       IN /\ nodes' = b.nodes
          /\ links' = b.links
          /\ node_map' = b.node_map
          /\ node_id' = b.node_id
    /\ pc' = "pass1"
    /\ idx' = 0
    /\ UNCHANGED <<analyzers, registered, hash_seed>>
    /\ UNCHANGED <<scan, read, files, disk, analysis_results, actual_links, module_map,
                   visualization_data, structured_analysis, outcome, run, previous_data>>

\* lines 271-346: one iteration of the pass-1 loop
Pass1File ==
    /\ pc = "pass1"
    /\ idx < Len(analysis_results)
    /\ LET b == AddFile([nodes |-> nodes, links |-> links, node_map |-> node_map,
                         node_id |-> node_id],
                        analysis_results[idx + 1][1], analysis_results[idx + 1][2])
       IN /\ nodes' = b.nodes
          /\ links' = b.links
          /\ node_map' = b.node_map
          /\ node_id' = b.node_id
    /\ idx' = idx + 1
    /\ UNCHANGED <<analyzers, registered, hash_seed>>
    /\ UNCHANGED <<scan, read, files, disk, pc, analysis_results, actual_links, module_map,
                   visualization_data, structured_analysis, outcome, run, previous_data>>

\* lines 350-382: pass 2 over all links, then module_map = {}
Pass2 ==
    /\ pc = "pass1"
    /\ idx = Len(analysis_results)
    /\ actual_links' = [k \in DOMAIN links |-> ResolveLink(nodes, links[k])]
    /\ module_map' = <<>>
    /\ pc' = "modules"
    /\ idx' = 0
    /\ UNCHANGED <<analyzers, registered, hash_seed>>
    /\ UNCHANGED <<scan, read, files, disk, analysis_results, nodes, links, node_map, node_id,
                   visualization_data, structured_analysis, outcome, run, previous_data>>

\* lines 383-417: one iteration of the module hierarchy loop
ModulesOfFile ==
    /\ pc = "modules"
    /\ idx < Len(analysis_results)
    /\ LET file_path == analysis_results[idx + 1][1]
           parts == Split(normalize_path(file_path), "/")
           m == AddModules([nodes |-> nodes, actual_links |-> actual_links,
                            module_map |-> module_map, node_id |-> node_id,
                            node_map |-> node_map],
                           file_path, Slice(parts, 0, Len(parts) - 1), 0, <<>>)
       IN /\ nodes' = m.nodes
          /\ actual_links' = m.actual_links
          /\ module_map' = m.module_map
          /\ node_id' = m.node_id
    /\ idx' = idx + 1
    /\ UNCHANGED <<analyzers, registered, hash_seed>>
    /\ UNCHANGED <<scan, read, files, disk, pc, analysis_results, links, node_map,
                   visualization_data, structured_analysis, outcome, run, previous_data>>

\* lines 419-423: _prepare_visualization_data returns
ReturnData ==
    /\ pc = "modules"
    /\ idx = Len(analysis_results)
    /\ visualization_data' =
          Some([nodes |-> nodes, links |-> actual_links, modules |-> DictKeys(module_map)])
    /\ pc' = "structure"
    /\ UNCHANGED <<analyzers, registered, hash_seed>>
    /\ UNCHANGED <<scan, read, files, disk, idx, analysis_results, nodes, links, node_map,
                   node_id, actual_links, module_map, structured_analysis, outcome, run,
                   previous_data>>

\* lines 227-253: the structured analysis, the AnalysisResults object, the return
\* or the AnalysisError of the except clause
BuildResults ==
    /\ pc = "structure"
    /\ structured_analysis' = Structure(<<>>, analysis_results)
    /\ LET results == NewAnalysisResults(
                          [project_id |-> <<"project-", "uuid">>,
                           timestamp |-> <<"now">>,
                           files_analyzed |-> Len(files),
                           structure |-> structured_analysis',
                           raw_data |-> visualization_data.some])
       IN outcome' = IF IsNone(results)
                     THEN Raised(<<"Error during project analysis: ",
                                   "validation error for AnalysisResults">>)
                     ELSE Returned(results.some)
    /\ pc' = "done"
    /\ UNCHANGED <<analyzers, registered, hash_seed>>
    /\ UNCHANGED <<scan, read, files, disk, idx, analysis_results, nodes, links, node_map,
                   node_id, actual_links, module_map, visualization_data, run,
                   previous_data>>

\* the service is asked to analyze the same project a second time
AnalyzeAgain ==
    /\ pc = "done"
    /\ run = 1
    /\ run' = 2
    /\ previous_data' = visualization_data
    /\ visualization_data' = NoneVal
    /\ pc' = "start"
    /\ UNCHANGED <<analyzers, registered, hash_seed>>
    /\ UNCHANGED <<scan, read, files, disk, idx, analysis_results, nodes, links, node_map,
                   node_id, actual_links, module_map, structured_analysis, outcome>>

(***************************************************************************)
(* The projects of the model.                                              *)
(***************************************************************************)
NoArgs == Arguments(<<>>, <<>>)
CallName(name) == Expr(Call(Name(Id(name)), <<>>))
CallAttr(obj, name) == Expr(Call(Attribute(Name(Id(obj)), Id(name)), <<>>))

\* def main(): helper()
DefMain == FunctionDef(Id("main"), NoArgs, <<CallName("helper")>>, <<>>)
\* def helper(): pass
DefHelper == FunctionDef(Id("helper"), NoArgs, <<Pass>>, <<>>)
\* class Service(Base):
\*     def helper(self): self.run(); helper()
ClassService ==
    ClassDef(Id("Service"), <<Name(Id("Base"))>>,
             <<FunctionDef(Id("helper"), Arguments(<<Arg(Id("self"))>>, <<>>),
                           <<CallAttr("self", "run"), CallName("helper")>>, <<>>)>>)

\* async def fetch(): helper()
AsyncFetch == AsyncFunctionDef(Id("fetch"), NoArgs, <<CallName("helper")>>, <<>>)
\* def helper(x): a(); a()
DefHelperAgain ==
    FunctionDef(Id("helper"), Arguments(<<Arg(Id("x"))>>, <<>>),
                <<CallName("a"), CallName("a")>>, <<>>)
\* def outer():
\*     def inner(): helper()
DefNested ==
    FunctionDef(Id("outer"), NoArgs,
                <<FunctionDef(Id("inner"), NoArgs, <<CallName("helper")>>, <<>>)>>, <<>>)
\* @register()
\* def handler(x=make()): pass
DefDecorated ==
    FunctionDef(Id("handler"),
                Arguments(<<Arg(Id("x"))>>, <<Call(Name(Id("make")), <<>>)>>),
                <<Pass>>, <<Call(Name(Id("register")), <<>>)>>)
\* def build(): factory()()
DefChained ==
    FunctionDef(Id("build"), NoArgs,
                <<Expr(Call(Call(Name(Id("factory")), <<>>), <<>>))>>, <<>>)
\* class Worker(pkg.Base, Mixin):
\*     async def run(self): self.helper()
ClassWorker ==
    ClassDef(Id("Worker"), <<Attribute(Name(Id("pkg")), Id("Base")), Name(Id("Mixin"))>>,
             <<AsyncFunctionDef(Id("run"), Arguments(<<Arg(Id("self"))>>, <<>>),
                                <<CallAttr("self", "helper")>>, <<>>)>>)
\* from pkg import Base as B, Mixin
ImportNames ==
    ImportFrom(Some(Id("pkg")),
               <<Alias(Id("Base"), Some(Id("B"))), Alias(Id("Mixin"), NoneVal)>>)
\* helper()
TopLevelCall == CallName("helper")

\* the files of a project of several files hold one of these
ProjectSources ==
    {PySource(Module(<<DefMain>>)), PySource(Module(<<DefHelper>>)),
     PySource(Module(<<ClassService>>)), Malformed}

\* the statements a module of the single-file projects is made of
Statements ==
    {DefMain, DefHelper, ClassService, AsyncFetch, DefHelperAgain, DefNested,
     DefDecorated, DefChained, ClassWorker, ImportNames, TopLevelCall}

RECURSIVE Bodies(_)
Bodies(n) ==
    IF n = 0 THEN {<<>>}
    ELSE {Append(b, stmt) : b \in Bodies(n - 1), stmt \in Statements}

ModuleSources ==
    {PySource(Module(b)) : b \in UNION {Bodies(n) : n \in 1..MaxBody}}
        \cup {Malformed, EmptyText, Unreadable}

\* main.py, util.py, a/b/x.py, a/b/y.py, /srv/app.py, a\w.PY, a/README.md and
\* /tmp/code_analyzer/github_clone_ab12/a/m.py
PathMain == <<"main", ".", "py">>
PathUtil == <<"util", ".", "py">>
PathABX == <<"a", "/", "b", "/", "x", ".", "py">>
PathABY == <<"a", "/", "b", "/", "y", ".", "py">>
PathAbsolute == <<"/", "srv", "/", "app", ".", "py">>
PathWindows == <<"a", "\\", "w", ".", "PY">>
PathReadme == <<"a", "/", "README", ".", "md">>
PathClone ==
    <<"/", "tmp", "/", "code_analyzer", "/", "github_", "clone_", "ab12", "/", "a", "/",
      "m", ".", "py">>

ProjectPaths == {PathMain, PathUtil, PathABX, PathABY, PathAbsolute, PathClone}
SingleFilePaths == {PathMain, PathWindows, PathReadme}

\* the lists of n distinct paths
RECURSIVE PathLists(_)
PathLists(n) ==
    IF n = 0 THEN {<<>>}
    ELSE {Append(l, p) : l \in PathLists(n - 1), p \in ProjectPaths}

DistinctPathLists(n) ==
    {l \in PathLists(n) : \A i, j \in DOMAIN l : i # j => l[i] # l[j]}

RECURSIVE SourceLists(_)
SourceLists(n) ==
    IF n = 0 THEN {<<>>}
    ELSE {Append(l, c) : l \in SourceLists(n - 1), c \in ProjectSources}

\* the extractors register_analyzer is called with, and the extension of each
HeuristicAnalyzers ==
    {"JavaAnalyzer", "GoAnalyzer", "CppAnalyzer", "CAnalyzer", "JavaScriptAnalyzer"}
ExtensionFor(analyzer) ==
    CASE analyzer = "PythonAnalyzer" -> <<"py">>
      [] analyzer = "JavaAnalyzer" -> <<"java">>
      [] analyzer = "GoAnalyzer" -> <<"go">>
      [] analyzer = "CppAnalyzer" -> <<"cpp">>
      [] analyzer = "CAnalyzer" -> <<"c">>
      [] analyzer = "JavaScriptAnalyzer" -> <<"js">>

TokenText(tokens) == [text |-> "tokens", tokens |-> tokens]

\* void f ( ), func f ( ), void f ( int a ), function f ( a )
Header(analyzer) ==
    CASE analyzer = "JavaAnalyzer" -> <<"void", "f", "(", ")">>
      [] analyzer = "GoAnalyzer" -> <<"func", "f", "(", ")">>
      [] analyzer = "CppAnalyzer" -> <<"void", "f", "(", "int", "a", ")">>
      [] analyzer = "CAnalyzer" -> <<"void", "f", "(", "int", "a", ")">>
      [] analyzer = "JavaScriptAnalyzer" -> <<"function", "f", "(", "a", ")">>

\* g ( ) ;   if ( x ) { g ( ) ; }   for ( ; ; ) { h ( ) ; }   while ( x ) { }
\* switch ( x ) { }
HeuristicStatements ==
    {<<"g", "(", ")", ";">>,
     <<"if", "(", "x", ")", "{", "g", "(", ")", ";", "}">>,
     <<"for", "(", ";", ";", ")", "{", "h", "(", ")", ";", "}">>,
     <<"while", "(", "x", ")", "{", "}">>,
     <<"switch", "(", "x", ")", "{", "}">>}

RECURSIVE HeuristicBodies(_)
HeuristicBodies(n) ==
    IF n = 0 THEN {<<>>}
    ELSE {b \o stmt : b \in HeuristicBodies(n - 1), stmt \in HeuristicStatements}

\* class C { m ( ) { g ( ) ; } }
JsClassText == <<"class", "C", "{", "m", "(", ")", "{", "g", "(", ")", ";", "}", "}">>
\* class C { m ( ) {
JsClassOpenText == <<"class", "C", "{", "m", "(", ")", "{">>
\* class C extends B { constructor ( ) { } m ( ) { if ( x ) { g ( ) ; } } }
JsSubclassText ==
    <<"class", "C", "extends", "B", "{", "constructor", "(", ")", "{", "}",
      "m", "(", ")", "{", "if", "(", "x", ")", "{", "g", "(", ")", ";", "}", "}", "}">>
\* function App ( ) { g ( ) ; }
JsComponentText == <<"function", "App", "(", ")", "{", "g", "(", ")", ";", "}">>
\* function f ( ) { g ( ) ; } function f ( ) { h ( ) ; }
JsRedefinedText ==
    <<"function", "f", "(", ")", "{", "g", "(", ")", ";", "}",
      "function", "f", "(", ")", "{", "h", "(", ")", ";", "}">>

\* the header of a function `name` with one parameter `arg`
Declaration(analyzer, name, arg) ==
    CASE analyzer = "GoAnalyzer" -> <<"func", name, "(", arg, "int", ")">>
      [] analyzer = "JavaScriptAnalyzer" -> <<"function", name, "(", arg, ")">>
      [] OTHER -> <<"void", name, "(", "int", arg, ")">>
\* the function `name` whose body calls `callee`
Definition(analyzer, name, arg, callee) ==
    Declaration(analyzer, name, arg) \o <<"{", callee, "(", ")", ";", "}">>

\* texts with comments: the function h that calls m inside a block comment and
\* inside a line comment before the function f, and a call of h inside a block
\* comment in the body of f
CommentTexts(analyzer) ==
    {<<"/*">> \o Definition(analyzer, "h", "b", "m") \o <<"*/">>
        \o Definition(analyzer, "f", "a", "g"),
     <<"//">> \o Definition(analyzer, "h", "b", "m") \o <<"\n">>
        \o Definition(analyzer, "f", "a", "g"),
     Declaration(analyzer, "f", "a")
        \o <<"{", "/*", "h", "(", ")", ";", "*/", "g", "(", ")", ";", "}">>}

\* the function f defined twice, on two lines
RedefinedText(analyzer) ==
    Definition(analyzer, "f", "a", "g") \o <<"\n">> \o Definition(analyzer, "f", "b", "h")

\* function f ( a ) { g ( ) ; } o = { f ( b ) { h ( ) ; } } ;
JsShorthandAfterText ==
    Definition("JavaScriptAnalyzer", "f", "a", "g")
       \o <<"o", "=", "{", "f", "(", "b", ")", "{", "h", "(", ")", ";", "}", "}", ";">>
\* o = { f : function ( b ) { h ( ) ; } } ;
JsObjectText ==
    <<"o", "=", "{", "f", ":", "function", "(", "b", ")", "{", "h", "(", ")", ";", "}", "}", ";">>
\* the object before the declaration of f, and after it
JsObjectBeforeText == JsObjectText \o Definition("JavaScriptAnalyzer", "f", "a", "g")
JsObjectAfterText == Definition("JavaScriptAnalyzer", "f", "a", "g") \o JsObjectText

\* import { a as b , c } from 'mod' ; import d from 'mod' ;
JsImportText ==
    <<"import", "{", "a", "as", "b", ",", "c", "}", "from", "'", "mod", "'", ";",
      "import", "d", "from", "'", "mod", "'", ";">>
\* const { a : b } = require ( 'mod' ) ; const e = require ( 'lib' ) ;
JsRequireText ==
    <<"const", "{", "a", ":", "b", "}", "=", "require", "(", "'", "mod", "'", ")", ";",
      "const", "e", "=", "require", "(", "'", "lib", "'", ")", ";">>
\* import { a as b as c } from 'mod' ;
JsImportTwiceAsText ==
    <<"import", "{", "a", "as", "b", "as", "c", "}", "from", "'", "mod", "'", ";">>
\* import m "pkg/path", and the function f on the next line
GoImportText ==
    <<"import", "m", "\"", "pkg", "/", "path", "\"", "\n">>
       \o <<"func", "f", "(", ")", "{", "g", "(", ")", ";", "}">>
\* import ( "fmt" and m "pkg/path" on a line each )
GoImportBlockText ==
    <<"import", "(", "\n", "\"", "fmt", "\"", "\n",
      "m", "\"", "pkg", "/", "path", "\"", "\n", ")">>
\* import a.b.C as T ; import a.b.B ;
JavaImportText ==
    <<"import", "a", ".", "b", ".", "C", "as", "T", ";",
      "import", "a", ".", "b", ".", "B", ";">>

\* the texts with imports and the texts that define a function twice
ImportTexts(analyzer) ==
    CASE analyzer = "JavaAnalyzer" -> {JavaImportText}
      [] analyzer = "GoAnalyzer" -> {GoImportText, GoImportBlockText}
      [] analyzer = "JavaScriptAnalyzer" -> {JsImportText, JsRequireText, JsImportTwiceAsText}
      [] OTHER -> {}
RedefinedTexts(analyzer) ==
    {RedefinedText(analyzer)}
       \cup (IF analyzer = "JavaScriptAnalyzer"
             THEN {JsShorthandAfterText, JsObjectBeforeText, JsObjectAfterText}
             ELSE {})

\* the texts given to an extractor: a function of at most MaxBody statements, the
\* same function with its closing brace missing, the empty text, the texts with
\* comments, with imports and with a function defined twice, and for JavaScript
\* the texts with classes above
HeuristicTexts(analyzer) ==
    LET bodies == UNION {HeuristicBodies(n) : n \in 0..MaxBody}
    IN {TokenText(Header(analyzer) \o <<"{">> \o b \o <<"}">>) : b \in bodies}
         \cup {TokenText(Header(analyzer) \o <<"{">> \o b) : b \in HeuristicBodies(1)}
         \cup {EmptyText}
         \cup {TokenText(t) : t \in CommentTexts(analyzer) \cup ImportTexts(analyzer)
                                       \cup RedefinedTexts(analyzer)}
         \cup (IF analyzer = "JavaScriptAnalyzer"
               THEN {TokenText(JsClassText), TokenText(JsClassOpenText),
                     TokenText(JsSubclassText), TokenText(JsComponentText),
                     TokenText(JsRedefinedText)}
               ELSE {})

\* the six extractors, and the texts given to each: PythonAnalyzer gets a text
\* that parses, the empty text and two texts that do not parse
Extractors == HeuristicAnalyzers \cup {"PythonAnalyzer"}
ExtractorTexts(analyzer) ==
    IF analyzer = "PythonAnalyzer"
    THEN {PySource(Module(<<DefHelperAgain>>)), EmptyText, Malformed, TokenText(JsClassText)}
    ELSE HeuristicTexts(analyzer)

\* the projects of the registry: app.js next to the paths of a Python file and of
\* a file without extractor
PathAppJs == <<"app", ".", "js">>
RegistryPaths == {PathMain, PathWindows, PathReadme, PathAppJs}
RegistryTexts ==
    {TokenText(Header("JavaScriptAnalyzer") \o <<"{">> \o <<"g", "(", ")", ";">> \o <<"}">>),
     TokenText(JsClassOpenText), EmptyText}
RegistryExtensions == {<<"py">>, <<"PY">>, <<"js">>}
RegistryAnalyzers == {"PythonAnalyzer", "JavaScriptAnalyzer"}

HandlerStart ==
    /\ pc = "start"
    /\ idx = 0
    /\ analysis_results = <<>>
    /\ nodes = <<>>
    /\ links = <<>>
    /\ node_map = <<>>
    /\ node_id = 0
    /\ actual_links = <<>>
    /\ module_map = <<>>
    /\ visualization_data = NoneVal
    /\ structured_analysis = <<>>
    /\ outcome = NoneVal
    /\ run = 1
    /\ previous_data = NoneVal

\* the service as __init__ leaves it. With PythonAnalyzer alone no set is listed,
\* and the hash seed plays no part.
ServiceStart ==
    /\ analyzers = DefaultAnalyzers
    /\ registered = DefaultRegistrations
    /\ hash_seed = 0

Init ==
    /\ scan = ScanIdle
    /\ read = ReadIdle
    /\ \E n \in 0..MaxFiles :
         /\ files \in DistinctPathLists(n)
         /\ disk \in SourceLists(n)
    /\ HandlerStart
    /\ ServiceStart

Next ==
    \/ GetCodeFiles
    \/ AnalyzeFile
    \/ BeginBuild
    \/ Pass1File
    \/ Pass2
    \/ ModulesOfFile
    \/ ReturnData
    \/ BuildResults
    \/ AnalyzeAgain

Spec == Init /\ [][Next]_vars

\* one file, its source drawn from the modules of at most MaxBody statements
InitPy ==
    /\ scan = ScanIdle
    /\ read = ReadIdle
    /\ \E p \in SingleFilePaths, c \in ModuleSources :
         /\ files = <<p>>
         /\ disk = <<c>>
    /\ HandlerStart
    /\ ServiceStart

SpecPy == InitPy /\ [][Next]_vars

\* one file read as a JavaScript text or empty; the application registers up to
\* MaxRegister analyzers before the analysis
InitReg ==
    /\ scan = ScanIdle
    /\ read = ReadIdle
    /\ \E p \in RegistryPaths, c \in RegistryTexts :
         /\ files = <<p>>
         /\ disk = <<c>>
    /\ HandlerStart
    /\ analyzers = DefaultAnalyzers
    /\ registered = DefaultRegistrations
    /\ hash_seed \in HashSeeds

NextReg ==
    \/ \E extension \in RegistryExtensions, analyzer \in RegistryAnalyzers :
          RegisterAnalyzer(extension, analyzer)
    \/ Next

SpecReg == InitReg /\ [][NextReg]_vars

\* one file of a language with an extractor, the extractor registered for its
\* extension by the application
InitHeur ==
    /\ scan = ScanIdle
    /\ read = ReadIdle
    /\ \E analyzer \in Extractors :
         /\ files = <<<<"m", ".">> \o ExtensionFor(analyzer)>>
         /\ \E c \in ExtractorTexts(analyzer) : disk = <<c>>
         /\ analyzers = register_analyzer(DefaultAnalyzers, ExtensionFor(analyzer), analyzer)
         /\ registered = Append(DefaultRegistrations, <<ExtensionFor(analyzer), analyzer>>)
    /\ HandlerStart
    /\ hash_seed \in HashSeeds

SpecHeur == InitHeur /\ [][Next]_vars

(***************************************************************************)
(* Claims about the block scanner (specification SpecScan).                *)
(***************************************************************************)
\* number of '{' minus number of '}' in content[a:b]
Balance(content, a, b) ==
    Cardinality({k \in a..(b - 1) : content[k + 1] = "{"})
        - Cardinality({k \in a..(b - 1) : content[k + 1] = "}"})

\* positions p >= start_pos of a '{' that the scan meets at depth 0
OpensAtDepth0(content, start_pos) ==
    {p \in start_pos..(Len(content) - 1) :
        content[p + 1] = "{" /\ Balance(content, start_pos, p) = 0}

\* positions q > p of a '}' that brings the depth counted from start_pos back to 0
ClosesToDepth0(content, start_pos, p) ==
    {q \in (p + 1)..(Len(content) - 1) :
        content[q + 1] = "}" /\ Balance(content, start_pos, q + 1) = 0}


ScanDone == scan.pc = "done"
ScanReturned == ScanDone /\ ~IsNone(scan.result)

\* C6: a returned substring is the text strictly between the first '{' met at
\* depth 0 scanning forward from start_pos and the '}' that brings the depth back
\* to 0, delimiters excluded, inner braces kept; "a { b { c } d } e" scanned from
\* its first '{' gives " b { c } d ".
C6_BlockIsEnclosedRegion ==
    ScanReturned =>
        /\ OpensAtDepth0(scan.content, scan.start_pos) # {}
        /\ LET p == Min(OpensAtDepth0(scan.content, scan.start_pos))
           IN /\ ClosesToDepth0(scan.content, scan.start_pos, p) # {}
              /\ scan.result.some =
                   Slice(scan.content, p + 1,
                         Min(ClosesToDepth0(scan.content, scan.start_pos, p)))
        /\ (scan.content = NestedExample /\ scan.start_pos = 2
              => scan.result.some = <<" ", "b", " ", "{", " ", "c", " ", "}", " ", "d", " ">>)

\* a scan that returned a region holding a nested pair of braces
C6_Witness ==
    /\ ScanReturned
    /\ "{" \in Range(scan.result.some)
    /\ "}" \in Range(scan.result.some)
    /\ scan.start_pos > 0

\* positions p >= start_pos of a '{'
OpenPositions(content, start_pos) ==
    {p \in start_pos..(Len(content) - 1) : content[p + 1] = "{"}

\* the '{' at p has a matching '}': some later position closes the nesting p opens
HasMatchingClose(content, p) ==
    \E q \in (p + 1)..(Len(content) - 1) :
        content[q + 1] = "}" /\ Balance(content, p, q + 1) = 0

\* the cases in which the scanner is to return absent
NoBalancedRegion(content, start_pos) ==
    \/ start_pos >= Len(content)
    \/ OpenPositions(content, start_pos) = {}
    \/ ~HasMatchingClose(content, Min(OpenPositions(content, start_pos)))

\* C7: the scanner returns None whenever content[start_pos:] has no '{', or its
\* first '{' has no matching '}' before the end of input, or start_pos is at or
\* past the end.
C7_AbsentWhenUnbalanced ==
    ScanDone /\ NoBalancedRegion(scan.content, scan.start_pos) => IsNone(scan.result)

(***************************************************************************)
(* Claims about the graph builder and analyze_project (specification Spec).*)
(***************************************************************************)
\* _prepare_visualization_data has returned; Graph is what it returned
Built == ~IsNone(visualization_data)
Graph == visualization_data.some

NodesOfType(g, type) == {k \in DOMAIN g.nodes : g.nodes[k].type = type}
\* the node with id n
NodeById(g, n) == g.nodes[CHOOSE k \in DOMAIN g.nodes : g.nodes[k].id = n]
\* the 'contains' links whose target is node n
ContainsInto(g, n) ==
    {k \in DOMAIN g.links : g.links[k].type = "contains" /\ g.links[k].target = NodeRef(n)}
CallsLinks(g) == {k \in DOMAIN g.links : g.links[k].type = "calls"}

\* the directory components of a normalized path, and its i-th directory prefix
DirParts(path) == LET parts == Split(path, "/") IN Slice(parts, 0, Len(parts) - 1)
DirPrefix(path, i) == LStrip(Join(Slice(DirParts(path), 0, i), "/"), "/")
DeepestPrefix(path) == DirPrefix(path, Len(DirParts(path)))
AnalyzedPaths == {normalize_path(analysis_results[k][1]) : k \in DOMAIN analysis_results}
AllPrefixes ==
    UNION {{DirPrefix(p, i) : i \in 1..Len(DirParts(p))} : p \in AnalyzedPaths}

\* C1: the only module-to-file 'contains' link into the node of a file with a
\* directory component comes from the module of its deepest directory prefix; no
\* ancestor-prefix module links directly to the file (stated for the files of
\* relative path, such as a/b/x.py and a/b/y.py).
C1_FileLinkedFromDeepestModuleOnly ==
    Built =>
        \A f \in NodesOfType(Graph, "file") :
            (Len(DirParts(Graph.nodes[f].path)) >= 1 /\ Head(Graph.nodes[f].path) # "/") =>
                \A k \in ContainsInto(Graph, Graph.nodes[f].id) :
                    NodeById(Graph, Graph.links[k].source).type = "module" =>
                        NodeById(Graph, Graph.links[k].source).path
                            = DeepestPrefix(Graph.nodes[f].path)

\* the function nodes named name
FunctionsNamed(g, name) ==
    {k \in NodesOfType(g, "function") : g.nodes[k].name = name}
MinId(g, S) == Min({g.nodes[k].id : k \in S})

\* C2: when function nodes share a name N, every calls link whose raw target is N
\* is rewritten to the id of the N node with the smallest id, from whichever file
\* the call was made.
C2_FirstMatchWins ==
    Built =>
        \A k \in DOMAIN links :
            ("temp" \in DOMAIN links[k] /\ FunctionsNamed(Graph, links[k].target.name) # {}) =>
                /\ Graph.links[k].type = "calls"
                /\ Graph.links[k].source = links[k].source
                /\ Graph.links[k].target =
                      NodeRef(MinId(Graph, FunctionsNamed(Graph, links[k].target.name)))

\* a call made in a file that defines the callee's name itself, resolved to the
\* earlier node of that name in another file
C2_Witness ==
    /\ Built
    /\ \E k \in CallsLinks(Graph) :
         /\ "id" \in DOMAIN Graph.links[k].target
         /\ LET callee == NodeById(Graph, Graph.links[k].target.id)
                caller == NodeById(Graph, Graph.links[k].source)
            IN /\ Cardinality(FunctionsNamed(Graph, callee.name)) >= 2
               /\ callee.path # caller.path
               /\ \E j \in FunctionsNamed(Graph, callee.name) :
                     Graph.nodes[j].path = caller.path

\* the file whose record defines node n: its node id
OwnerFileIds(g, n) ==
    {DictGet(node_map, analysis_results[k][1]) : k \in
        {k \in DOMAIN analysis_results :
            /\ normalize_path(analysis_results[k][1]) = n.path
            /\ LET table == IF n.type = "function" THEN "functions" ELSE "classes"
               IN /\ table \in DOMAIN analysis_results[k][2]
                  /\ DictHas(analysis_results[k][2][table], n.name)}}

C4_ReturnsGraphAndErrors ==
    (pc = "done" /\ files # <<>> /\ \A k \in DOMAIN disk : disk[k] # Unreadable) =>
        /\ "returned" \in DOMAIN outcome
        /\ "raw_data" \in DOMAIN outcome.returned
        /\ outcome.returned.raw_data = Graph
        /\ \A k \in DOMAIN analysis_results :
              "error" \in DOMAIN analysis_results[k][2] =>
                  DictGet(outcome.returned.structure,
                          normalize_path(analysis_results[k][1])).errors
                      = Some(<<analysis_results[k][2].error>>)

\* the two-file project of main and helper, both in the project root
MainHelperProject ==
    /\ Len(files) = 2
    /\ \A k \in DOMAIN files : "/" \notin Range(files[k]) /\ ExtensionOf(files[k]) = <<"py">>
    /\ \E k \in DOMAIN disk :
          /\ disk[k] = PySource(Module(<<DefMain>>))
          /\ disk[3 - k] = PySource(Module(<<DefHelper>>))

\* C5: the two-file project (def main(): helper() and def helper(): pass) yields
\* exactly 2 file nodes and 2 function nodes, exactly one calls link, from main to
\* helper, and one contains link from each file node to its own function, in either
\* file order.
C5_EndToEnd ==
    (Built /\ MainHelperProject) =>
        /\ Cardinality(NodesOfType(Graph, "file")) = 2
        /\ Cardinality(NodesOfType(Graph, "function")) = 2
        /\ Len(Graph.nodes) = 4
        /\ Cardinality(FunctionsNamed(Graph, Id("main"))) = 1
        /\ Cardinality(FunctionsNamed(Graph, Id("helper"))) = 1
        /\ Cardinality(CallsLinks(Graph)) = 1
        /\ \A k \in CallsLinks(Graph) :
              /\ Graph.links[k].source = MinId(Graph, FunctionsNamed(Graph, Id("main")))
              /\ Graph.links[k].target =
                    NodeRef(MinId(Graph, FunctionsNamed(Graph, Id("helper"))))
        /\ \A n \in NodesOfType(Graph, "function") :
              \E k \in ContainsInto(Graph, Graph.nodes[n].id) :
                  /\ NodeById(Graph, Graph.links[k].source).type = "file"
                  /\ NodeById(Graph, Graph.links[k].source).path = Graph.nodes[n].path
        /\ Cardinality({k \in DOMAIN Graph.links : Graph.links[k].type = "contains"}) = 2

\* the project built with helper's file processed first
C5_Witness ==
    /\ Built
    /\ MainHelperProject
    /\ disk[1] = PySource(Module(<<DefHelper>>))

\* C9: a second run of the builder on the same records in the same file order
\* gives the same nodes (ids, names, kinds), the same links and the same modules.
C9_SecondRunSameGraph ==
    (run = 2 /\ Built /\ ~IsNone(previous_data)) =>
        /\ Graph.nodes = previous_data.some.nodes
        /\ Graph.links = previous_data.some.links
        /\ Graph.modules = previous_data.some.modules

\* a second run over a project with functions, calls and modules
C9_Witness ==
    /\ run = 2
    /\ Built
    /\ ~IsNone(previous_data)
    /\ Graph.modules # <<>>
    /\ CallsLinks(Graph) # {}
    /\ Len(files) >= 2

\* the paths of the module nodes, in the order of the nodes sequence
RECURSIVE ModulePathsInOrder(_)
ModulePathsInOrder(ns) ==
    IF ns = <<>> THEN <<>>
    ELSE (IF Head(ns).type = "module" THEN <<Head(ns).path>> ELSE <<>>)
         \o ModulePathsInOrder(Tail(ns))

\* the prefix without its last component; <<>> when there is no parent prefix
ParentPrefix(prefix) ==
    LET parts == Split(prefix, "/") IN Join(Slice(parts, 0, Len(parts) - 1), "/")

Unresolved(g) ==
    {k \in DOMAIN links : "temp" \in DOMAIN links[k]
                          /\ FunctionsNamed(g, links[k].target.name) = {}}

\* C11: a tentative calls link whose raw target name matches no function node of
\* the project is kept by pass 2, at its position, with the same source and kind,
\* with target 'unknown:' followed by the name and the name itself in targetName.
C11_UnresolvedKeptAsUnknown ==
    Built =>
        /\ Len(Graph.links) >= Len(links)
        /\ \A k \in Unresolved(Graph) :
              /\ Graph.links[k].source = links[k].source
              /\ Graph.links[k].type = links[k].type
              /\ Graph.links[k].type = "calls"
              /\ Graph.links[k].target = NameRef(<<"unknown:">> \o links[k].target.name)
              /\ "targetName" \in DOMAIN Graph.links[k]
              /\ Graph.links[k].targetName = links[k].target.name

\* a graph of two files where one call is unresolved and another is resolved
C11_Witness ==
    /\ Built
    /\ Len(files) = 2
    /\ Unresolved(Graph) # {}
    /\ \E k \in CallsLinks(Graph) : "id" \in DOMAIN Graph.links[k].target

\* C12: node ids come from one counter that starts at 0 and grows by one per
\* created node: during the build the counter equals the number of nodes created,
\* and the node at position i (counted from 0) of the returned sequence has id i,
\* the module nodes of the hierarchy pass included.
C12_IdIsPosition ==
    /\ pc \in {"pass1", "modules", "structure"} =>
          /\ node_id = Len(nodes)
          /\ \A k \in DOMAIN nodes : nodes[k].id = k - 1
    /\ Built =>
          /\ \A k \in DOMAIN Graph.nodes : Graph.nodes[k].id = k - 1
          /\ \A j, k \in DOMAIN Graph.nodes : j # k => Graph.nodes[j].id # Graph.nodes[k].id

\* a returned graph whose last nodes are module nodes, after file, function and
\* class nodes of two files
C12_Witness ==
    /\ Built
    /\ Len(files) = 2
    /\ NodesOfType(Graph, "function") # {}
    /\ NodesOfType(Graph, "class") # {}
    /\ Cardinality(NodesOfType(Graph, "module")) >= 2
    /\ Graph.nodes[Len(Graph.nodes)].type = "module"
    /\ Graph.nodes[Len(Graph.nodes)].id = Len(Graph.nodes) - 1

\* the class records of the analyzed files: <<file_path, class_name, details>>
ClassRecords ==
    UNION {{<<analysis_results[k][1], analysis_results[k][2].classes[j][1],
              analysis_results[k][2].classes[j][2]>> :
                j \in DOMAIN analysis_results[k][2].classes} :
           k \in {k \in DOMAIN analysis_results : "classes" \in DOMAIN analysis_results[k][2]}}

\* C13: for every class whose record lists a base type name B, the returned graph
\* holds a link of kind 'inherits' from the node of that class to the name B.
C13_InheritsLinkPerBase ==
    Built =>
        \A c \in ClassRecords :
            \A b \in DOMAIN c[3].bases :
                \E k \in DOMAIN Graph.links :
                    /\ Graph.links[k].type = "inherits"
                    /\ Graph.links[k].source = DictGet(node_map, c[1] \o <<":">> \o c[2])
                    /\ Graph.links[k].target = NameRef(c[3].bases[b])
\* the record of an error-free file without definitions, with the summary of analysis
EmptyTables(analysis) ==
    [imports |-> <<>>, functions |-> <<>>, classes |-> <<>>, summary |-> analysis.summary]

\* the records with every error record replaced by empty tables
ErrorsAsEmpty(results) ==
    [k \in DOMAIN results |->
        <<results[k][1],
          IF "error" \in DOMAIN results[k][2]
          THEN EmptyTables(results[k][2]) ELSE results[k][2]>>]

ErrorFiles == {k \in DOMAIN analysis_results : "error" \in DOMAIN analysis_results[k][2]}

\* C14: a file whose record carries an error gets exactly one file node and no
\* function or class child, and the whole returned graph equals the graph built
\* from the same records with every error record replaced by empty tables.
C14_ErrorFileAsEmptyFile ==
    Built =>
        /\ \A k \in ErrorFiles :
              LET mine == {n \in NodesOfType(Graph, "file") :
                              Graph.nodes[n].id = DictGet(node_map, analysis_results[k][1])}
              IN /\ Cardinality(mine) = 1
                 /\ \A n \in mine :
                       /\ Graph.nodes[n].path = normalize_path(analysis_results[k][1])
                       /\ \A j \in DOMAIN Graph.links :
                             Graph.links[j].source # Graph.nodes[n].id
        /\ Graph = prepare_visualization_data(ErrorsAsEmpty(analysis_results))

\* a file with a syntax error processed before a file with a function, both below
\* a directory
C14_Witness ==
    /\ Built
    /\ Len(files) = 2
    /\ 1 \in ErrorFiles
    /\ 2 \notin ErrorFiles
    /\ NodesOfType(Graph, "function") # {}
    /\ NodesOfType(Graph, "module") # {}

(***************************************************************************)
(* Claims about PythonAnalyzer (specification SpecPy).                     *)
(***************************************************************************)
\* the function definitions of a tree, def and async def, at any depth
Definitions(tree) ==
    {k \in DOMAIN Walk(tree) : Walk(tree)[k].t \in {"FunctionDef", "AsyncFunctionDef"}}

\* the callee names of the call expressions in the body of a definition
BodyCallees(def) == Range(CalleeNames(WalkQueue(def.body)))

\* C8: every function name defined in a valid Python source (def or async def, top
\* level, nested or method) has exactly one entry in the functions table, and every
\* call in that function's body whose callee is a name or an attribute access
\* contributes that name to the entry's call list.
C8_EveryFunctionHasEntryWithItsCalls ==
    \A k \in DOMAIN analysis_results :
        LET file_path == analysis_results[k][1]
            analysis == analysis_results[k][2]
            content == disk[CHOOSE j \in DOMAIN files : files[j] = file_path]
        IN (ExtensionOf(file_path) \in RegisteredExtensions /\ ~IsNone(Parse(content))) =>
              /\ "functions" \in DOMAIN analysis
              /\ \A d \in Definitions(Parse(content).some) :
                    LET def == Walk(Parse(content).some)[d]
                    IN /\ Cardinality({j \in DOMAIN analysis.functions :
                                         analysis.functions[j][1] = def.name}) = 1
                       /\ BodyCallees(def)
                             \subseteq Range(DictGet(analysis.functions, def.name).calls)


(***************************************************************************)
(* Claims about the extractors and their registry                          *)
(***************************************************************************)
\* the extractor a file of the project is given to, if any
HasExtractor(k) == DictHas(analyzers, ExtensionOf(files[k]))
ExtractorOf(k) == DictGet(analyzers, ExtensionOf(files[k]))

\* an exception is raised inside the try block of analyze: ast.parse raises
\* SyntaxError, or the heuristic matching raises
FailsInside(analyzer, content) ==
    IF analyzer = "PythonAnalyzer" THEN IsNone(Parse(content))
    ELSE "raised" \in DOMAIN TryAnalyze(analyzer, TokensOf(content))

Tables == {"imports", "functions", "classes"}
Analyzed == {k \in DOMAIN analysis_results : HasExtractor(k)}

\* C15: analyze of every extractor returns a record and no exception leaves it
\* (the loop over the files of the project is never left before its end); when
\* an exception is raised inside it, by a Python syntax error or by the heuristic
\* matching, the record has its error field set and holds no imports, functions
\* or classes table, and otherwise it has no error field.
C15_AnalyzeNeverRaises ==
    /\ pc \notin {"start", "analyze"} => Len(analysis_results) = Len(files)
    /\ \A k \in DOMAIN files :
          HasExtractor(k) => "raised" \notin DOMAIN Analyze(ExtractorOf(k), files[k], disk[k])
    /\ \A k \in Analyzed :
          LET record == analysis_results[k][2] IN
          IF FailsInside(ExtractorOf(k), disk[k])
          THEN /\ "error" \in DOMAIN record
               /\ record.error # <<>>
               /\ DOMAIN record \cap Tables = {}
          ELSE /\ "error" \notin DOMAIN record
               /\ Tables \subseteq DOMAIN record

\* a JavaScript class without balanced block was analyzed into an error record
\* and the graph of the project was built
C15_Witness ==
    /\ Built
    /\ 1 \in Analyzed
    /\ "error" \in DOMAIN analysis_results[1][2]
    /\ ExtractorOf(1) = "JavaScriptAnalyzer"
    /\ disk[1] = TokenText(JsClassOpenText)
    /\ analysis_results[1][2].error =
          <<"JavaScript analysis error: ",
            "expected string or bytes-like object, got 'NoneType'">>


\* the register_analyzer calls made for an extension, and the extractor of the last
RegistrationsFor(extension) == {j \in DOMAIN registered : registered[j][1] = extension}
LastRegistered(extension) ==
    registered[CHOOSE j \in RegistrationsFor(extension) :
                  \A i \in RegistrationsFor(extension) : i <= j][2]

ControlKeywords == {<<"if">>, <<"for">>, <<"while">>, <<"switch">>}

\* the call lists of the functions table of a record
CallLists(record) ==
    IF "functions" \in DOMAIN record
    THEN {record.functions[j][2].calls : j \in DOMAIN record.functions}
    ELSE {}

\* C17: no call list recorded by a heuristic extractor (Java, Go, C++, C,
\* JavaScript) holds one of the names if, for, while, switch.
C17_NoControlKeywordCalls ==
    \A k \in Analyzed :
        ExtractorOf(k) \in HeuristicAnalyzers =>
            \A calls \in CallLists(analysis_results[k][2]) :
                Range(calls) \cap ControlKeywords = {}


(***************************************************************************)
(* Claims about the returned links, the modules and the class entries      *)
(***************************************************************************)
\* C18: the returned links form a set: no two of them have the same source, the
\* same target and the same kind.
C18_LinksFormASet ==
    Built =>
        \A j, k \in DOMAIN Graph.links :
            j # k =>
                \/ Graph.links[j].source # Graph.links[k].source
                \/ Graph.links[j].target # Graph.links[k].target
                \/ Graph.links[j].type # Graph.links[k].type


\* C19: the project root is no node: no module node has an empty path or an
\* empty name, and the modules list does not contain the empty string.
C19_RootNeverMaterialized ==
    Built =>
        /\ \A n \in NodesOfType(Graph, "module") :
              /\ Graph.nodes[n].path # <<>>
              /\ Graph.nodes[n].name # <<>>
        /\ <<>> \notin Range(Graph.modules)


\* the simple name of a base class expression: B for B and for pkg.B
SimpleName(base) == IF base.t = "Attribute" THEN base.attr ELSE base.id

\* the names of the functions written with def directly in a class body, in order
DirectMethods(body) ==
    LET defs == SelectSeq(body, LAMBDA item : item.t = "FunctionDef")
    IN [k \in DOMAIN defs |-> defs[k].name]

\* C20: every class definition of a Python module has a class entry; its bases
\* list holds the simple name of each base class in source order, B for a base
\* written pkg.B, and its methods list holds the names of the functions defined
\* directly in the class body.
C20_ClassEntryBasesAndMethods ==
    \A k \in DOMAIN analysis_results :
        (ExtensionOf(files[k]) = <<"py">> /\ disk[k].text = "python") =>
            LET body == disk[k].tree.body
                classes == analysis_results[k][2].classes
            IN \A j \in DOMAIN body :
                  (/\ body[j].t = "ClassDef"
                   /\ \A i \in DOMAIN body :
                         (i > j /\ body[i].t = "ClassDef") => body[i].name # body[j].name) =>
                      /\ DictHas(classes, body[j].name)
                      /\ DictGet(classes, body[j].name).bases =
                            [b \in DOMAIN body[j].bases |-> SimpleName(body[j].bases[b])]
                      /\ DictGet(classes, body[j].name).methods = DirectMethods(body[j].body)


(***************************************************************************)
(* Claims about pass 2 and the endpoints of the links                      *)
(***************************************************************************)
\* the function names of the records of the project, whatever the file
DefinedNames(results) ==
    UNION {{results[k][2].functions[j][1] : j \in DOMAIN results[k][2].functions} :
           k \in {k \in DOMAIN results : "functions" \in DOMAIN results[k][2]}}

Reverse(s) == [k \in DOMAIN s |-> s[Len(s) + 1 - k]]

\* the calls of a graph as (path of the caller, name of the caller, callee name
\* or "unknown:" name), node ids left out
CallsByName(g) ==
    {<<NodeById(g, g.links[k].source).path, NodeById(g, g.links[k].source).name,
       IF "id" \in DOMAIN g.links[k].target
       THEN NodeById(g, g.links[k].target.id).name
       ELSE g.links[k].target.name>> : k \in CallsLinks(g)}

\* C25: a call to the name N is resolved to a function node if and only if some
\* record of the project, of a file before or after the caller's, has a function
\* named N; and the graph built from the records in the reverse order resolves
\* the same calls.
C25_ResolutionIgnoresFileOrder ==
    Built =>
        /\ \A k \in DOMAIN links :
              "temp" \in DOMAIN links[k] =>
                  ("id" \in DOMAIN Graph.links[k].target
                      <=> links[k].target.name \in DefinedNames(analysis_results))
        /\ CallsByName(prepare_visualization_data(Reverse(analysis_results)))
              = CallsByName(Graph)

\* a call made in the first file is resolved to a function that only the second
\* file defines
C25_Witness ==
    /\ Built
    /\ Len(files) = 2
    /\ \E k \in CallsLinks(Graph) :
         /\ "id" \in DOMAIN Graph.links[k].target
         /\ NodeById(Graph, Graph.links[k].source).path = normalize_path(files[1])
         /\ NodeById(Graph, Graph.links[k].target.id).path = normalize_path(files[2])
         /\ FunctionsNamed(Graph, NodeById(Graph, Graph.links[k].target.id).name)
               = {Graph.links[k].target.id + 1}


\* the (file path, function name, callee name) triples of one functions table, one
\* per entry of each call list, in the order of the table and of the lists
RECURSIVE CallEntries(_, _)
CallEntries(file_path, functions) ==
    IF functions = <<>> THEN <<>>
    ELSE [k \in DOMAIN Head(functions)[2].calls |->
             <<file_path, Head(functions)[1], Head(functions)[2].calls[k]>>]
         \o CallEntries(file_path, Tail(functions))

\* the same for all records, in file order
RECURSIVE AllCallEntries(_)
AllCallEntries(results) ==
    IF results = <<>> THEN <<>>
    ELSE (IF "functions" \in DOMAIN Head(results)[2]
          THEN CallEntries(Head(results)[1], Head(results)[2].functions)
          ELSE <<>>)
         \o AllCallEntries(Tail(results))

\* the returned 'calls' links in order, as (source id, callee name)
ReturnedCalls(g) ==
    LET calls == SelectSeq(g.links, LAMBDA l : l.type = "calls")
    IN [k \in DOMAIN calls |->
           <<calls[k].source,
             IF "id" \in DOMAIN calls[k].target
             THEN NodeById(g, calls[k].target.id).name
             ELSE calls[k].targetName>>]

\* C27: the returned graph has exactly one 'calls' link per entry of each call
\* list of the records, repeated entries counted as often as they occur, with
\* the id of the function node the list belongs to as source and the entry's name
\* as callee; and no returned link carries the temporary marker.
C27_CallsLinksConserved ==
    Built =>
        /\ ReturnedCalls(Graph) =
              [k \in DOMAIN AllCallEntries(analysis_results) |->
                  <<DictGet(node_map, AllCallEntries(analysis_results)[k][1] \o <<":">>
                                         \o AllCallEntries(analysis_results)[k][2]),
                    AllCallEntries(analysis_results)[k][3]>>]
        /\ \A k \in DOMAIN Graph.links : "temp" \notin DOMAIN Graph.links[k]

\* a function calls the same name twice, another call of the module is resolved
C27_Witness ==
    /\ Built
    /\ \E j, k \in DOMAIN ReturnedCalls(Graph) :
          j # k /\ ReturnedCalls(Graph)[j] = ReturnedCalls(Graph)[k]
    /\ \E k \in CallsLinks(Graph) : "id" \in DOMAIN Graph.links[k].target


\* the type of the node a numeric endpoint names, "none" when no node has that id
TypeOfId(g, n) ==
    IF \E k \in DOMAIN g.nodes : g.nodes[k].id = n THEN NodeById(g, n).type ELSE "none"

\* the endpoints of one returned link are of the kinds its type allows
WellTyped(g, link) ==
    /\ TypeOfId(g, link.source) # "none"
    /\ "id" \in DOMAIN link.target => TypeOfId(g, link.target.id) # "none"
    /\ link.type \in {"calls", "contains"}
    /\ link.type = "calls" =>
          /\ TypeOfId(g, link.source) = "function"
          /\ IF "id" \in DOMAIN link.target
             THEN TypeOfId(g, link.target.id) = "function"
             ELSE /\ Len(link.target.name) > 1
                  /\ Head(link.target.name) = "unknown:"
    /\ link.type = "contains" =>
          /\ "id" \in DOMAIN link.target
          /\ \/ /\ TypeOfId(g, link.source) = "file"
                /\ TypeOfId(g, link.target.id) \in {"function", "class"}
             \/ /\ TypeOfId(g, link.source) = "module"
                /\ TypeOfId(g, link.target.id) \in {"module", "file"}

SoleDefs(tree) ==
    {d \in DOMAIN Walk(tree) :
        /\ Walk(tree)[d].t = "FunctionDef"
        /\ \A e \in Definitions(tree) : Walk(tree)[e].name = Walk(tree)[d].name => e = d}

\* C29: the call list of a Python function holds only callee names of calls made
\* in the body of that function; a call in its decorator list or in the default
\* value of a parameter is not on the list.
C29_CallListFromBodyOnly ==
    \A k \in DOMAIN analysis_results :
        (ExtensionOf(files[k]) = <<"py">> /\ disk[k].text = "python") =>
            \A d \in SoleDefs(disk[k].tree) :
                DictHas(analysis_results[k][2].functions, Walk(disk[k].tree)[d].name) =>
                    Range(DictGet(analysis_results[k][2].functions,
                                  Walk(disk[k].tree)[d].name).calls)
                        \subseteq BodyCallees(Walk(disk[k].tree)[d])


(***************************************************************************)
(* More claims about the block scanner (specification SpecScan)            *)
(***************************************************************************)
\* the '}' that matches the '{' at p
MatchingClose(content, p) ==
    Min({q \in (p + 1)..(Len(content) - 1) :
            content[q + 1] = "}" /\ Balance(content, p, q + 1) = 0})

\* C26: during a scan the depth is never below zero, so a '}' met before any '{'
\* changes nothing: when the first '{' of content[start_pos:] has a matching '}',
\* the scanner returns the text between the two.
C26_LeadingCloseHasNoEffect ==
    /\ scan.depth >= 0
    /\ (/\ ScanDone
        /\ OpenPositions(scan.content, scan.start_pos) # {}
        /\ HasMatchingClose(scan.content, Min(OpenPositions(scan.content, scan.start_pos))))
       => scan.result =
             Some(Slice(scan.content,
                        Min(OpenPositions(scan.content, scan.start_pos)) + 1,
                        MatchingClose(scan.content,
                                      Min(OpenPositions(scan.content, scan.start_pos)))))

\* C30: the four copies of _extract_block_content return the same value for the
\* same text and start offset, the empty text and offsets at or past the end
\* included.
C30_CopiesAgree ==
    ScanDone =>
        \A a \in Analyzers :
            extract_block_content(a, scan.content, scan.start_pos) = scan.result

\* the entry guard of the Java copy ended a call on a text that is not empty
C30_Witness ==
    /\ ScanDone
    /\ scan.analyzer = "java"
    /\ scan.content # <<>>
    /\ scan.start_pos >= Len(scan.content)
    /\ extract_block_content("go", scan.content, scan.start_pos) = scan.result


(***************************************************************************)
(* Claims about FileService.read_file (specification SpecRead)             *)
(***************************************************************************)
ReadDone == read.pc = "done"

\* the byte at index k of a file
ByteAt(file, k) == IF k < Len(file.bytes) THEN file.bytes[k + 1] ELSE 97

\* at most 70% of the first 1000 bytes of a file that is not empty are printable
MostlyUnprintable(file) ==
    LET n == IF FileSize(file) < 1000 THEN FileSize(file) ELSE 1000
    IN 10 * Cardinality({k \in 0..(n - 1) : IsTextByte(ByteAt(file, k))}) <= 7 * n

\* C24: read_file raises only when an open, a read or getsize failed, never
\* because of the bytes of the file. Bytes that are valid UTF-8, the empty file
\* included, are returned decoded; bytes that are not are returned decoded as
\* latin-1; and when the latin-1 read fails, the result is the '[Binary file: ...]'
\* placeholder if the file is larger than 1 MB or at most 70% of its first 1000
\* bytes are printable, and the bytes decoded leniently otherwise.
C24_ReadFileNeverRaisesOnContent ==
    ReadDone =>
        /\ "raised" \in DOMAIN read.result => read.failed \cap {"utf-8", "binary"} # {}
        /\ read.failed = {} =>
              /\ "text" \in DOMAIN read.result
              /\ read.file.bytes = <<>> => read.result = Text(<<>>, read.file.pad)
              /\ IsNone(Utf8Decode(read.file.bytes, <<>>)) =>
                    read.result = Text(UniversalNewlines(Latin1Decode(read.file.bytes)),
                                       read.file.pad)
        /\ read.failed = {"latin-1"} =>
              read.result =
                  IF FileSize(read.file) > 1024 * 1024 \/ MostlyUnprintable(read.file)
                  THEN BinaryPlaceholder(read.file)
                  ELSE Text(Latin1Decode(read.file.bytes), read.file.pad)

\* the latin-1 read failed on a file of at most 1 MB of which exactly 70% are
\* printable: the placeholder is returned
C24_Witness ==
    /\ ReadDone
    /\ read.failed = {"latin-1"}
    /\ FileSize(read.file) = 10
    /\ Cardinality({k \in 0..9 : IsTextByte(ByteAt(read.file, k))}) = 7
    /\ read.result = BinaryPlaceholder(read.file)


(***************************************************************************)
(* Claims about comments, imports and redefinitions in the heuristic       *)
(* extractors (specification SpecHeur)                                     *)
(***************************************************************************)
\* the words of a text that stand inside its comments and nowhere else
CommentOnly(content) ==
    {w \in Range(content) : IsWord(w) /\ ~IsSpace(w)} \ Range(remove_comments(content))

\* the names a record holds: the keys of its three tables and the names called
RecordedNames(record) ==
    Range(DictKeys(record.imports)) \cup Range(DictKeys(record.functions))
       \cup Range(DictKeys(record.classes)) \cup Range(record.calls)
       \cup UNION {Range(calls) : calls \in CallLists(record)}

\* the files given to a heuristic extractor that returned its tables
Extracted ==
    {k \in Analyzed : /\ ExtractorOf(k) \in HeuristicAnalyzers
                      /\ disk[k].text = "tokens"
                      /\ "error" \notin DOMAIN analysis_results[k][2]}

\* C21: every heuristic extractor (Java, Go, C++, C, JavaScript) removes the
\* comments before it matches a pattern: a name that stands only inside a line
\* comment or a block comment is no key of the imports, functions or classes
\* table and is in no call list of the record.
C21_CommentsContributeNothing ==
    \A k \in Extracted :
        \A w \in CommentOnly(disk[k].tokens) :
            <<w>> \notin RecordedNames(analysis_results[k][2])

\* the local names a text binds with an alias, each with the target the entry of
\* the alias holds: Go `m "pkg/path"`, Java `import a.b.C as T;`, JavaScript
\* `{ a as b } from 'mod'` and `{ a : b } = require('mod')`
GoAliases(tokens) ==
    {[local |-> <<tokens[i]>>,
      target |-> Slice(tokens, i + 1, LiteralEnd(tokens, i, {"\""}))] :
        i \in {i \in 1..Len(tokens) : /\ IsWord(tokens[i])
                                      /\ tokens[i] # "import"
                                      /\ ~InLiteral(tokens, i)
                                      /\ LiteralEnd(tokens, i, {"\""}) # -1}}
JavaAliases(tokens) ==
    {[local |-> <<tokens[i + 1]>>,
      target |-> Slice(tokens, RFind(tokens, "import", i) + 1, i - 1)] :
        i \in {i \in 2..(Len(tokens) - 2) : /\ tokens[i] = "as"
                                            /\ IsWord(tokens[i + 1])
                                            /\ tokens[i + 2] = ";"
                                            /\ RFind(tokens, "import", i) # -1}}
ModuleAfter(tokens, i) ==
    LET q == Min({j \in i..(Len(tokens) - 1) : tokens[j + 1] \in Quotes})
    IN Slice(tokens, q + 1, LiteralEnd(tokens, q, Quotes))
JsAliases(tokens) ==
    {[local |-> <<tokens[i + 1]>>,
      target |-> ModuleAfter(tokens, i) \o <<":", tokens[i - 1]>>] :
        i \in {i \in 2..(Len(tokens) - 1) :
                  /\ tokens[i] \in {"as", ":"}
                  /\ IsWord(tokens[i - 1]) /\ IsWord(tokens[i + 1])
                  /\ tokens[i + 1] # "function"
                  /\ \E j \in i..(Len(tokens) - 1) : tokens[j + 1] \in Quotes}}
AliasesOf(analyzer, tokens) ==
    CASE analyzer = "GoAnalyzer" -> GoAliases(tokens)
      [] analyzer = "JavaAnalyzer" -> JavaAliases(tokens)
      [] analyzer = "JavaScriptAnalyzer" -> JsAliases(tokens)
      [] OTHER -> {}

\* C22: an import with an alias has its entry in the imports table under the
\* alias, the local name it binds, and not under the original name or a name
\* taken from the path: in a Go import block and in a single-line Go import
\* (import alias "pkg/path"), in a Java import, in a JavaScript ES6 named import
\* and in a destructured require.
C22_ImportsKeyedByLocalName ==
    \A k \in Extracted :
        \A alias \in AliasesOf(ExtractorOf(k), Unlines(disk[k].tokens)) :
            /\ DictHas(analysis_results[k][2].imports, alias.local)
            /\ DictGet(analysis_results[k][2].imports, alias.local) = alias.target

\* the definitions of functions the scans of an extractor find in a text, each
\* with the index where it starts and the entry its scan writes for it alone
ScanEntries(table, start) ==
    {[name |-> table[j][1], start |-> start, entry |-> table[j][2]] : j \in DOMAIN table}
DefinitionsBy(analyzer, content, tokens) ==
    CASE analyzer = "JavaAnalyzer" ->
            UNION {ScanEntries(JavaFunctions(<<>>, tokens, <<m>>), m.start) :
                      m \in Range(FindTyped("java.function", tokens, Wide(content), 0))}
      [] analyzer = "GoAnalyzer" ->
            UNION {ScanEntries(GoFunctions(<<>>, content, tokens, <<m>>), m.start) :
                      m \in Range(FindIter("go.func", tokens, 0))}
      [] analyzer = "CppAnalyzer" ->
            UNION {ScanEntries(CppFunctions(<<>>, tokens, <<m>>), m.start) :
                      m \in Range(FindIter("cpp.function", tokens, 0))}
      [] analyzer = "CAnalyzer" ->
            UNION {ScanEntries(CFunctions(<<>>, tokens, <<m>>), m.start) :
                      m \in Range(FindTyped("c.function", tokens, Wide(content), 0))}
      [] analyzer = "JavaScriptAnalyzer" ->
            UNION ({ScanEntries(JsFunctions(<<>>, <<>>, tokens, <<m>>), m.start) :
                       m \in Range(FindIter("js.function", tokens, 0))}
                   \cup {ScanEntries(JsObjectMethods(<<>>, tokens, <<m>>), m.start) :
                            m \in Range(FindIter("js.object_method", tokens, 0))}
                   \cup {ScanEntries(JsShorthand(<<>>, tokens, <<m>>), m.start) :
                            m \in Range(FindIter("js.shorthand", tokens, 0))})

\* the text the patterns of an extractor are matched on
Matched(analyzer, content) ==
    IF analyzer \in {"JavaAnalyzer", "GoAnalyzer"} THEN content ELSE remove_comments(content)

\* the definition of `name` that comes last in the text
LastDefinition(definitions, name) ==
    CHOOSE d \in definitions :
        /\ d.name = name
        /\ \A e \in definitions : e.name = name => e.start <= d.start

\* C23: the functions table of every extractor holds one entry for a name, and
\* when the text defines the name several times the entry holds the args and the
\* calls of the definition that is the last in source order; so it is for
\* JavaScript, where separate scans collect the declarations, the object methods
\* and the shorthand methods.
C23_LastDefinitionWins ==
    \A k \in Extracted :
        LET content == Matched(ExtractorOf(k), disk[k].tokens)
            definitions == DefinitionsBy(ExtractorOf(k), content, Unlines(content))
            functions == analysis_results[k][2].functions
        IN \A j \in DOMAIN functions :
              /\ \A i \in DOMAIN functions : functions[i][1] = functions[j][1] => i = j
              /\ \E d \in definitions : d.name = functions[j][1]
              /\ functions[j][2].args = LastDefinition(definitions, functions[j][1]).entry.args
              /\ Range(functions[j][2].calls)
                    = LastDefinition(definitions, functions[j][1]).entry.calls

====
